---- MODULE Spec2Model ----
(***************************************************************************)
(* QR Stream (src/qr/qr-stream.js): the packet codec (crc16, encodePacket, *)
(* decodePacket), the Sender's chunking and the Receiver's reassembly.     *)
(*                                                                         *)
(* Conventions.  A JS string or Uint8Array is a sequence of numbers; JS    *)
(* index i is TLA+ index i + 1.  A Map is a function whose DOMAIN is the   *)
(* set of its keys.  JS null for a number-valued field is the value null;  *)
(* a function that returns null or an object returns a record.             *)
(***************************************************************************)
EXTENDS Integers, Sequences, FiniteSets, TLC

VARIABLES
    input,      \* arguments of the call under study (constructor / codec arguments)
    output,     \* results of the pure codec calls made so far
    sender,     \* the Sender object
    receiver,   \* the Receiver object
    rxFrame,    \* the frame handed to the last receive() call
    rxResult,   \* what that call returned or threw; noResult when the last operation was not receive()
    rxCalls,    \* the callbacks that call invoked, in order
    completed,  \* the arguments of every onComplete invocation since construction / reset()
    delivered,  \* seqs of the Sender's packets handed intact to receive() since construction / reset()
    timers,     \* number of pending setTimeout callbacks that will run sender._tick()
    txResult,   \* what the last getNextPacket() call of the client returned; noResult when the last operation was another
    txCalls     \* the Sender callbacks invoked since the last call of the client (start() included), in order

vars == <<input, output, sender, receiver, rxFrame, rxResult, rxCalls, completed, delivered,
          timers, txResult, txCalls>>

\* the part of the state that belongs to the Sender's emission loop
txVars == <<timers, txResult, txCalls>>

(***************************************************************************)
(* Bounds of the model.                                                    *)
(***************************************************************************)
MaxLen == 2          \* longest stream payload when foreign frames are shown
MaxStreamLen == 3    \* longest stream payload when only the Sender's frames are shown
MaxChunk == 2        \* largest chunk size of a stream
MaxSenderLen == 4    \* longest payload given to the Sender constructor alone
MaxSenderChunk == 4  \* largest chunkSize option given to the Sender constructor alone
MaxComplete == 2     \* receive() is not called any more after this many onComplete invocations
MaxCodecLen == 2     \* longest payload of the codec round trip

(***************************************************************************)
(* Constants of the program.                                               *)
(***************************************************************************)
MAGIC == <<81, 83>>          \* 'QS'
HEADER_SIZE == 9
DEFAULT_CHUNK_SIZE == 1800
FLAG_FIRST == 1
FLAG_LAST == 2
FLAG_RETRANSMIT == 4
FLAG_ACK == 8
null == -1

(***************************************************************************)
(* JS integer operators on non-negative numbers.                           *)
(***************************************************************************)
RECURSIVE BitXor(_, _)
BitXor(a, b) ==
    IF a = 0 THEN b
    ELSE IF b = 0 THEN a
    ELSE (((a % 2) + (b % 2)) % 2) + 2 * BitXor(a \div 2, b \div 2)

RECURSIVE BitOr(_, _)
BitOr(a, b) ==
    IF a = 0 THEN b
    ELSE IF b = 0 THEN a
    ELSE (IF (a % 2) + (b % 2) > 0 THEN 1 ELSE 0) + 2 * BitOr(a \div 2, b \div 2)

\* a store into a Uint8Array element
ToUint8(x) == x % 256

Min(a, b) == IF a < b THEN a ELSE b

(***************************************************************************)
(* crc16: CRC-16/CCITT-FALSE, computed bit by bit as the code does; the    *)
(* register is masked to 16 bits once per byte.                            *)
(***************************************************************************)
RECURSIVE crc16Bits(_, _)
crc16Bits(crc, j) ==
    IF j = 0 THEN crc
    ELSE crc16Bits(IF (crc \div 32768) % 2 = 1      \* crc & 0x8000
                   THEN BitXor(crc * 2, 4129)       \* (crc << 1) ^ 0x1021
                   ELSE crc * 2,
                   j - 1)

RECURSIVE crc16Loop(_, _, _)
\* the register holds 16 bits on entry to every round of the outer loop
crc16Loop(data, i, crc) ==
    IF crc < 65536 /\ i <= Len(data)
    THEN crc16Loop(data, i + 1,
                   crc16Bits(BitXor(crc, data[i] * 256), 8) % 65536)   \* crc &= 0xFFFF
    ELSE crc

crc16(data) == crc16Loop(data, 1, 65535)

(***************************************************************************)
(* encodePacket / decodePacket.                                            *)
(***************************************************************************)
\* mutant: seq written low byte first
encodePacketLittleEndian(seq, total, flags, data) ==
    LET checksum == crc16(data)
    IN  << MAGIC[1], MAGIC[2],
           seq % 256, (seq \div 256) % 256,
           (total \div 256) % 256, total % 256,
           ToUint8(flags),
           (checksum \div 256) % 256, checksum % 256 >>
        \o [i \in 1..Len(data) |-> ToUint8(data[i])]

encodePacket(seq, total, flags, data) ==
    LET checksum == crc16(data)
    IN  << MAGIC[1], MAGIC[2],
           (seq \div 256) % 256, seq % 256,            \* (seq >> 8) & 0xFF, seq & 0xFF
           (total \div 256) % 256, total % 256,
           ToUint8(flags),
           (checksum \div 256) % 256, checksum % 256 >>
        \o [i \in 1..Len(data) |-> ToUint8(data[i])]

\* the result null of decodePacket
noPacket == [null |-> TRUE]

\* mutant: the checksum is not verified
decodePacketNoChecksum(str) ==
    IF Len(str) < HEADER_SIZE THEN noPacket
    ELSE LET data == [i \in 1..Len(str) |-> ToUint8(str[i])]
         IN  IF data[1] # MAGIC[1] \/ data[2] # MAGIC[2] THEN noPacket
             ELSE [ seq |-> data[3] * 256 + data[4], total |-> data[5] * 256 + data[6],
                    flags |-> data[7], data |-> SubSeq(data, HEADER_SIZE + 1, Len(data)) ]

\* mutant: only the first magic byte is compared
decodePacketFirstMagicByte(str) ==
    IF Len(str) < HEADER_SIZE THEN noPacket
    ELSE LET data == [i \in 1..Len(str) |-> ToUint8(str[i])]
         IN  IF data[1] # MAGIC[1] THEN noPacket
             ELSE LET seq == data[3] * 256 + data[4]
                      total == data[5] * 256 + data[6]
                      flags == data[7]
                      checksum == data[8] * 256 + data[9]
                      payload == SubSeq(data, HEADER_SIZE + 1, Len(data))
                  IN  IF crc16(payload) # checksum
                      THEN [error |-> "checksum", seq |-> seq]
                      ELSE [seq |-> seq, total |-> total, flags |-> flags, data |-> payload]

decodePacket(str) ==
    IF Len(str) < HEADER_SIZE THEN noPacket
    ELSE LET data == [i \in 1..Len(str) |-> ToUint8(str[i])]
         IN  IF data[1] # MAGIC[1] \/ data[2] # MAGIC[2] THEN noPacket
             ELSE LET seq == data[3] * 256 + data[4]       \* (data[2] << 8) | data[3]
                      total == data[5] * 256 + data[6]
                      flags == data[7]
                      checksum == data[8] * 256 + data[9]
                      payload == SubSeq(data, HEADER_SIZE + 1, Len(data))
                  IN  IF crc16(payload) # checksum
                      THEN [error |-> "checksum", seq |-> seq]
                      ELSE [seq |-> seq, total |-> total, flags |-> flags, data |-> payload]

isNull(packet) == DOMAIN packet = {"null"}
isChecksumError(packet) == "error" \in DOMAIN packet

(***************************************************************************)
(* Sender: the constructor and _createPackets.                             *)
(***************************************************************************)
\* Math.ceil(a / b) for a >= 0, b > 0
Ceil(a, b) == (a + b - 1) \div b

\* mutant: the LAST flag is assigned, not or-ed in
createPacketsLastAssigned(data, chunkSize) ==
    LET totalChunks == Ceil(Len(data), chunkSize)
    IN  [k \in 1..totalChunks |->
            LET i == k - 1
                start == i * chunkSize
                end == Min(start + chunkSize, Len(data))
                chunk == SubSeq(data, start + 1, end)
                flags == IF i = totalChunks - 1 THEN FLAG_LAST
                         ELSE IF i = 0 THEN FLAG_FIRST ELSE 0
            IN  encodePacket(i, totalChunks, flags, chunk)]

createPackets(data, chunkSize) ==
    LET totalChunks == Ceil(Len(data), chunkSize)
    IN  [k \in 1..totalChunks |->
            LET i == k - 1
                start == i * chunkSize
                end == Min(start + chunkSize, Len(data))
                chunk == SubSeq(data, start + 1, end)
                flags0 == IF i = 0 THEN BitOr(0, FLAG_FIRST) ELSE 0
                flags == IF i = totalChunks - 1 THEN BitOr(flags0, FLAG_LAST) ELSE flags0
            IN  encodePacket(i, totalChunks, flags, chunk)]

\* new Sender(data, {chunkSize: optChunkSize}); an absent or 0 option is falsy
NewSender(data, optChunkSize) ==
    LET chunkSize == IF optChunkSize = 0 THEN DEFAULT_CHUNK_SIZE ELSE optChunkSize
    IN  [ chunkSize |-> chunkSize,
          data |-> data,
          packets |-> createPackets(data, chunkSize),
          currentIndex |-> 0,
          retransmitQueue |-> << >>,
          isPlaying |-> FALSE,
          onPacket |-> FALSE,
          onComplete |-> FALSE ]

\* no Sender constructed yet
noSender == [constructed |-> FALSE]

(***************************************************************************)
(* Receiver.                                                               *)
(***************************************************************************)
\* new Receiver()
NewReceiver ==
    [ packets |-> << >>,
      totalPackets |-> null,
      checksumErrors |-> {},
      onProgress |-> FALSE,      \* TRUE: a handler is installed
      onComplete |-> FALSE ]

\* this.packets.set(seq, data) for a seq the Map does not hold
MapSet(m, key, val) == [k \in DOMAIN m \cup {key} |-> IF k = key THEN val ELSE m[k]]

RECURSIVE missingFromInclusive(_, _)
\* mutant: the loop runs to i <= totalPackets
missingFromInclusive(r, i) ==
    IF i > r.totalPackets THEN << >>
    ELSE (IF i \notin DOMAIN r.packets THEN <<i>> ELSE << >>) \o missingFromInclusive(r, i + 1)

RECURSIVE missingFrom(_, _)
missingFrom(r, i) ==
    IF i >= r.totalPackets THEN << >>
    ELSE (IF i \notin DOMAIN r.packets THEN <<i>> ELSE << >>) \o missingFrom(r, i + 1)

\* mutant: the loop starts at 1
getMissingSequencesFromOne(r) ==
    IF r.totalPackets = null THEN << >>
    ELSE missingFrom(r, 1)

getMissingSequences(r) ==
    IF r.totalPackets = null THEN << >>
    ELSE missingFrom(r, 0)

isComplete(r) ==
    r.totalPackets # null /\ Cardinality(DOMAIN r.packets) = r.totalPackets

RECURSIVE concatFromDescending(_, _)
\* mutant: the chunks are copied last seq first
concatFromDescending(r, i) ==
    IF i >= r.totalPackets THEN << >>
    ELSE concatFromDescending(r, i + 1) \o r.packets[i]

RECURSIVE concatFrom(_, _)
concatFrom(r, i) ==
    IF i >= r.totalPackets THEN << >>
    ELSE r.packets[i] \o concatFrom(r, i + 1)

\* reassemble(): null when incomplete; this.packets.get(i).length throws a
\* TypeError when the Map has no entry i
reassemble(r) ==
    IF ~isComplete(r) THEN [null |-> TRUE]
    ELSE IF \E i \in 0..(r.totalPackets - 1) : i \notin DOMAIN r.packets
    THEN [threw |-> "TypeError"]
    ELSE [bytes |-> concatFrom(r, 0)]

\* mutant: the payload is stored without the has() test
storePacketOverwrite(r, packet) ==
    [r EXCEPT
        !.packets = MapSet(r.packets, packet.seq, packet.data),
        !.checksumErrors = @ \ {packet.seq},
        !.totalPackets = IF @ = null THEN packet.total ELSE @]

\* mutant: the total is taken from every accepted packet
storePacketTotalLatest(r, packet) ==
    LET isNew == packet.seq \notin DOMAIN r.packets
    IN  [r EXCEPT
            !.packets = IF isNew THEN MapSet(r.packets, packet.seq, packet.data) ELSE @,
            !.checksumErrors = IF isNew THEN @ \ {packet.seq} ELSE @,
            !.totalPackets = packet.total]

\* the Receiver's fields after receive(qrData) has handled a decoded packet
storePacket(r, packet) ==
    LET isNew == packet.seq \notin DOMAIN r.packets
    IN  [r EXCEPT
            !.packets = IF isNew THEN MapSet(r.packets, packet.seq, packet.data) ELSE @,
            !.checksumErrors = IF isNew THEN @ \ {packet.seq} ELSE @,
            !.totalPackets = IF @ = null THEN packet.total ELSE @]

progressCall(r) ==
    [ cb |-> "onProgress",
      received |-> Cardinality(DOMAIN r.packets),
      total |-> r.totalPackets,
      missing |-> getMissingSequences(r) ]

\* mutant: completion is reported before progress
receiveCompleteFirst(r, qrData) ==
    LET packet == decodePacket(qrData)
    IN  IF isNull(packet)
        THEN [ receiver |-> r,
               result |-> [accepted |-> FALSE, reason |-> "invalid"],
               calls |-> << >> ]
        ELSE IF isChecksumError(packet)
        THEN [ receiver |-> [r EXCEPT !.checksumErrors = @ \cup {packet.seq}],
               result |-> [accepted |-> FALSE, reason |-> "checksum", seq |-> packet.seq],
               calls |-> << >> ]
        ELSE LET r1 == storePacket(r, packet)
                 progress == IF r1.onProgress THEN <<progressCall(r1)>> ELSE << >>
                 whole == reassemble(r1)
             IN  IF isComplete(r1) /\ r1.onComplete
                 THEN IF "threw" \in DOMAIN whole
                      THEN [ receiver |-> r1,
                             result |-> whole,
                             calls |-> << >> ]
                      ELSE [ receiver |-> r1,
                             result |-> [accepted |-> TRUE, seq |-> packet.seq, total |-> packet.total],
                             calls |-> <<[cb |-> "onComplete", data |-> whole.bytes]>> \o progress ]
                 ELSE [ receiver |-> r1,
                        result |-> [accepted |-> TRUE, seq |-> packet.seq, total |-> packet.total],
                        calls |-> progress ]

\* receive(qrData): the Receiver after the call, what the call returned and the
\* callbacks it invoked
receive(r, qrData) ==
    LET packet == decodePacket(qrData)
    IN  IF isNull(packet)
        THEN [ receiver |-> r,
               result |-> [accepted |-> FALSE, reason |-> "invalid"],
               calls |-> << >> ]
        ELSE IF isChecksumError(packet)
        THEN [ receiver |-> [r EXCEPT !.checksumErrors = @ \cup {packet.seq}],
               result |-> [accepted |-> FALSE, reason |-> "checksum", seq |-> packet.seq],
               calls |-> << >> ]
        ELSE LET r1 == storePacket(r, packet)
                 progress == IF r1.onProgress THEN <<progressCall(r1)>> ELSE << >>
                 whole == reassemble(r1)
             IN  IF isComplete(r1) /\ r1.onComplete
                 THEN IF "threw" \in DOMAIN whole
                      THEN [ receiver |-> r1,
                             result |-> whole,
                             calls |-> progress ]
                      ELSE [ receiver |-> r1,
                             result |-> [accepted |-> TRUE, seq |-> packet.seq, total |-> packet.total],
                             calls |-> progress \o <<[cb |-> "onComplete", data |-> whole.bytes]>> ]
                 ELSE [ receiver |-> r1,
                        result |-> [accepted |-> TRUE, seq |-> packet.seq, total |-> packet.total],
                        calls |-> progress ]

\* reset()
resetReceiver(r) ==
    [r EXCEPT !.packets = << >>, !.totalPackets = null, !.checksumErrors = {}]

(***************************************************************************)
(* The stream: one Sender's packets reach one Receiver through a channel   *)
(* (a display and a camera) that reorders, repeats and corrupts frames and *)
(* may show frames of other streams.                                       *)
(***************************************************************************)
\* byte i (from 1) of a stream payload: 0x00, 0x55, 0xAA, 0xFF, 0x54, ...
PayloadByte(i) == ((i - 1) * 85) % 256
StreamPayload(len) == [i \in 1..len |-> PayloadByte(i)]

\* the seq and total fields of the header have two bytes
SeqFieldValues == 256 * 256
\* a payload that chunks of one byte split into more packets than total can count
WidePayload == [i \in 1..(SeqFieldValues + 1) |-> 0]

\* the packets of Sender s that reach the camera: every packet of a stream the
\* total field can count; the first and the last of a longer stream
Shown(s) ==
    LET n == Len(s.packets)
    IN  IF n < SeqFieldValues THEN 1..n ELSE {1, n}

ForeignPayload == <<7>>
\* CRC-valid frames the Sender s did not build: a seq the Sender uses (0) and one
\* past its last (n), with total 0, the Sender's total n, and another total (n + 1)
ForeignFrames(s) ==
    LET n == Len(s.packets)
    IN  { encodePacket(k, t, 0, ForeignPayload) : k \in {0, n}, t \in {0, n, n + 1} }

\* a frame with one bit of its last byte flipped
Corrupted(f) == [f EXCEPT ![Len(f)] = BitXor(@, 1)]

\* frames decodePacket cannot parse: empty, shorter than the header, wrong magic
InvalidFrames ==
    LET f == encodePacket(0, 1, 0, ForeignPayload)
    IN  { << >>, SubSeq(f, 1, HEADER_SIZE - 1), [f EXCEPT ![1] = 88], [f EXCEPT ![2] = 113] }

noResult == [none |-> TRUE]

completeArgs(calls) ==
    LET onC == SelectSeq(calls, LAMBDA c : c.cb = "onComplete")
    IN  [i \in 1..Len(onC) |-> onC[i].data]

\* the client installs its handlers (receiver.onProgress = ...; receiver.onComplete = ...)
\* before it feeds frames
Pristine(r) == r.packets = << >> /\ r.totalPackets = null /\ r.checksumErrors = {}

SetCallbacks ==
    /\ Pristine(receiver) /\ ~receiver.onProgress /\ ~receiver.onComplete
    /\ receiver' = [receiver EXCEPT !.onProgress = TRUE, !.onComplete = TRUE]
    /\ rxFrame' = << >>
    /\ rxResult' = noResult
    /\ rxCalls' = << >>
    /\ UNCHANGED <<input, output, sender, completed, delivered, txVars>>

\* receiver.receive(f)
Receive(f) ==
    /\ Len(completed) < MaxComplete
    /\ LET out == receive(receiver, f)
           mine == { k \in Shown(sender) : sender.packets[k] = f }
       IN  /\ receiver' = out.receiver
           /\ rxFrame' = f
           /\ rxResult' = out.result
           /\ rxCalls' = out.calls
           /\ completed' = completed \o completeArgs(out.calls)
           /\ delivered' = delivered \cup { k - 1 : k \in mine }
    /\ UNCHANGED <<input, output, sender, txVars>>

ReceiveIntact == \E k \in Shown(sender) : Receive(sender.packets[k])
ReceiveCorrupted == \E k \in Shown(sender) : Receive(Corrupted(sender.packets[k]))
ReceiveForeign == \E f \in ForeignFrames(sender) : Receive(f)
ReceiveInvalid == \E f \in InvalidFrames : Receive(f)

\* receiver.reset()
Reset ==
    /\ receiver' = resetReceiver(receiver)
    /\ rxFrame' = << >>
    /\ rxResult' = noResult
    /\ rxCalls' = << >>
    /\ completed' = << >>
    /\ delivered' = {}
    /\ UNCHANGED <<input, output, sender, txVars>>

\* a Sender built from (data, optChunkSize) and the Receiver r
ConstructedWith(data, optChunkSize, r) ==
    /\ input = [data |-> data, chunkSize |-> optChunkSize]
    /\ output = << >>
    /\ sender = NewSender(data, optChunkSize)
    /\ receiver = r
    /\ rxFrame = << >>
    /\ rxResult = noResult
    /\ rxCalls = << >>
    /\ completed = << >>
    /\ delivered = {}
    /\ timers = 0
    /\ txResult = noResult
    /\ txCalls = << >>

\* a Sender built from (data, optChunkSize) and a new Receiver
Constructed(data, optChunkSize) == ConstructedWith(data, optChunkSize, NewReceiver)

Init == \E len \in 1..MaxLen, c \in 1..MaxChunk : Constructed(StreamPayload(len), c)

Next ==
    \/ SetCallbacks
    \/ ReceiveIntact
    \/ ReceiveCorrupted
    \/ ReceiveForeign
    \/ ReceiveInvalid
    \/ Reset

Spec == Init /\ [][Next]_vars

\* the same stream when only the Sender's frames are shown to the camera
NextStream ==
    \/ SetCallbacks
    \/ ReceiveIntact
    \/ ReceiveCorrupted
    \/ ReceiveInvalid
    \/ Reset

\* streams of a few packets, and one of 65537 one-byte packets whose Receiver
\* has its handlers installed already
InitStream ==
    \/ \E len \in 1..MaxStreamLen, c \in 1..MaxChunk : Constructed(StreamPayload(len), c)
    \/ ConstructedWith(WidePayload, 1,
                        [NewReceiver EXCEPT !.onProgress = TRUE, !.onComplete = TRUE])

SpecStream == InitStream /\ [][NextStream]_vars

(***************************************************************************)
(* Properties of the Receiver.                                             *)
(***************************************************************************)
Elems(q) == { q[i] : i \in 1..Len(q) }

\* the wire format, read off a frame's bytes
WellFramed(f) == Len(f) >= 9 /\ f[1] = 81 /\ f[2] = 83
HeaderSeq(f) == f[3] * 256 + f[4]
HeaderTotal(f) == f[5] * 256 + f[6]
StoredCrc(f) == f[8] * 256 + f[9]
PayloadOf(f) == SubSeq(f, 10, Len(f))
CrcMatches(f) == crc16(PayloadOf(f)) = StoredCrc(f)

\* this step is a receive() call: rxFrame' is its argument, rxResult' its outcome
Returned == rxResult' # noResult

\* what C1 says of a stream: the bytes any invocation of onComplete got are
\* the original payload, and once every packet of the Sender has been handed
\* intact to receive(), onComplete has been invoked
CompletenessHolds ==
    /\ \A i \in 1..Len(completed) : completed[i] = input.data
    /\ delivered = 0..(Len(sender.packets) - 1) => completed # << >>

\* C1 (receiver completeness), as claimed: for every non-empty payload and
\* chunk size, when only the Sender's frames are shown (intact copies in any
\* order, repeated, with corrupted copies in between) and the completion
\* handler is installed, then once every packet of the Sender has been handed
\* intact to receive(), onComplete has been invoked, and the bytes it got are
\* exactly the original payload.  (An invocation with other bytes stays a
\* violation whatever is delivered afterwards.)
C1_ReceiverCompletenessAnySize == receiver.onComplete => CompletenessHolds

\* C1, amended: the same for every non-empty payload and chunk size that give
\* at most 65535 packets, the highest count the two-byte total field holds.
C1_ReceiverCompleteness ==
    (receiver.onComplete /\ Len(sender.packets) < SeqFieldValues) => CompletenessHolds

\* a three-packet stream completes although a corrupted copy arrived as well
C1_Witness ==
    /\ Len(sender.packets) = 3
    /\ delivered = {0, 1, 2}
    /\ receiver.checksumErrors # {}
    /\ completed = <<input.data>>

\* C2 (at most one completion): between construction or reset() and the next
\* reset(), onComplete is invoked at most once.
C2_CompleteAtMostOnce == Len(completed) <= 1

\* C3 (missing set): whenever total is known, getMissingSequences() lists exactly
\* the seqs of 0..total-1 that the packet map does not hold, in ascending order.
C3_MissingSequences ==
    receiver.totalPackets # null =>
        LET m == getMissingSequences(receiver)
        IN  /\ Elems(m) = (0..(receiver.totalPackets - 1)) \ DOMAIN receiver.packets
            /\ \A i, j \in 1..Len(m) : i < j => m[i] < m[j]

\* total is 3, only seq 2 is stored: 0 and 1 are missing
C3_Witness ==
    /\ receiver.totalPackets = 3
    /\ DOMAIN receiver.packets = {2}
    /\ Len(getMissingSequences(receiver)) = 2

\* C4 (a different total is ignored): once total is known, a CRC-valid packet
\* whose total field differs from it changes neither the packet map, nor total,
\* nor the missing set.
C4_DifferentTotalIgnored ==
    [][ ( /\ Returned
          /\ receiver.totalPackets # null
          /\ WellFramed(rxFrame') /\ CrcMatches(rxFrame')
          /\ HeaderTotal(rxFrame') # receiver.totalPackets )
        => /\ receiver'.packets = receiver.packets
           /\ receiver'.totalPackets = receiver.totalPackets
           /\ getMissingSequences(receiver') = getMissingSequences(receiver) ]_vars

\* C5 (checksum rejection): a frame of at least 9 bytes with the magic whose
\* stored CRC differs from crc16(payload) is answered {accepted: false, reason:
\* 'checksum', seq} with the header's seq, which joins checksumErrors; the packet
\* map and total stay as they are and no callback is invoked.  And an entry of the
\* packet map is only ever written by a well-framed frame whose CRC matches, with
\* that frame's seq and payload.
C5_ChecksumRejected ==
    [][ /\ ( Returned /\ WellFramed(rxFrame') /\ ~CrcMatches(rxFrame') )
           => /\ rxResult' = [accepted |-> FALSE, reason |-> "checksum", seq |-> HeaderSeq(rxFrame')]
              /\ receiver'.checksumErrors = receiver.checksumErrors \cup {HeaderSeq(rxFrame')}
              /\ receiver'.packets = receiver.packets
              /\ receiver'.totalPackets = receiver.totalPackets
              /\ rxCalls' = << >>
              /\ completed' = completed
        /\ \A k \in DOMAIN receiver'.packets :
              (k \notin DOMAIN receiver.packets \/ receiver'.packets[k] # receiver.packets[k])
              => /\ Returned /\ WellFramed(rxFrame') /\ CrcMatches(rxFrame')
                 /\ k = HeaderSeq(rxFrame')
                 /\ receiver'.packets[k] = PayloadOf(rxFrame') ]_vars

\* a corrupted copy of packet 1 was just rejected, with handlers installed
C5_Witness ==
    /\ rxResult = [accepted |-> FALSE, reason |-> "checksum", seq |-> 1]
    /\ receiver.onProgress /\ receiver.onComplete
    /\ DOMAIN receiver.packets = {0}
    /\ receiver.checksumErrors = {1}

\* C6 (a rejected packet stays missing), as claimed: after a corrupted copy of
\* packet k that is not stored was rejected, getMissingSequences() contains k, in
\* every Receiver state.
C6_RejectedIsMissing ==
    ( /\ rxResult # noResult
      /\ WellFramed(rxFrame) /\ ~CrcMatches(rxFrame)
      /\ HeaderSeq(rxFrame) \notin DOMAIN receiver.packets )
    => HeaderSeq(rxFrame) \in Elems(getMissingSequences(receiver))

\* C6, amended: ... getMissingSequences() contains k provided total is already
\* known and k < total; while total is unknown (the corrupted frame is the first
\* frame of the session, or only rejected frames came before) it is empty.
C6_RejectedIsMissingOnceTotalKnown ==
    ( /\ rxResult # noResult
      /\ WellFramed(rxFrame) /\ ~CrcMatches(rxFrame)
      /\ HeaderSeq(rxFrame) \notin DOMAIN receiver.packets )
    => IF receiver.totalPackets = null
       THEN getMissingSequences(receiver) = << >>
       ELSE HeaderSeq(rxFrame) < receiver.totalPackets
               => HeaderSeq(rxFrame) \in Elems(getMissingSequences(receiver))

\* packet 0 is stored, total is known, a corrupted copy of packet 1 was just rejected
C6_Witness ==
    /\ rxResult # noResult
    /\ WellFramed(rxFrame) /\ ~CrcMatches(rxFrame)
    /\ HeaderSeq(rxFrame) = 1
    /\ DOMAIN receiver.packets = {0}
    /\ receiver.totalPackets = 2

\* C7 (invalid frames): a frame shorter than 9 bytes, or whose first two bytes are
\* not 'QS', is answered {accepted: false, reason: 'invalid'}; the Receiver is left
\* exactly as it was (so it goes on accepting frames as before) and no callback is
\* invoked.
C7_InvalidRejected ==
    [][ ( Returned /\ (Len(rxFrame') < 9 \/ rxFrame'[1] # 81 \/ rxFrame'[2] # 83) )
        => /\ rxResult' = [accepted |-> FALSE, reason |-> "invalid"]
           /\ receiver' = receiver
           /\ rxCalls' = << >>
           /\ completed' = completed ]_vars

\* a frame of full length with a wrong second magic byte was just rejected by a
\* Receiver that holds a packet and has its handlers installed
C7_Witness ==
    /\ rxResult = [accepted |-> FALSE, reason |-> "invalid"]
    /\ Len(rxFrame) >= 9 /\ rxFrame[1] = 81 /\ rxFrame[2] # 83
    /\ receiver.onProgress /\ receiver.onComplete
    /\ DOMAIN receiver.packets # {}

\* C8 (duplicates): a CRC-valid packet whose seq the packet map already holds
\* leaves the map (so the payload accepted first), total and checksumErrors as they
\* are.
C8_DuplicateIdempotent ==
    [][ ( /\ Returned
          /\ WellFramed(rxFrame') /\ CrcMatches(rxFrame')
          /\ HeaderSeq(rxFrame') \in DOMAIN receiver.packets )
        => /\ receiver'.packets = receiver.packets
           /\ receiver'.totalPackets = receiver.totalPackets
           /\ receiver'.checksumErrors = receiver.checksumErrors ]_vars

\* a valid frame for a stored seq, with another payload than the stored one, was
\* just received while that seq was listed in checksumErrors
C8_Witness ==
    /\ rxResult # noResult
    /\ WellFramed(rxFrame) /\ CrcMatches(rxFrame)
    /\ HeaderSeq(rxFrame) \in DOMAIN receiver.packets
    /\ receiver.packets[HeaderSeq(rxFrame)] # PayloadOf(rxFrame)
    /\ HeaderSeq(rxFrame) \in receiver.checksumErrors

(***************************************************************************)
(* The packet codec alone: encodePacket and decodePacket applied to        *)
(* arguments drawn from a bounded set.                                     *)
(***************************************************************************)
RECURSIVE SeqsUpTo(_, _)
\* the sequences over S of length at most n
SeqsUpTo(S, n) ==
    IF n = 0 THEN { << >> }
    ELSE LET shorter == SeqsUpTo(S, n - 1)
         IN  shorter \cup { Append(q, x) : q \in shorter, x \in S }

FieldValues == {0, 1, 255, 256, 257, 65280, 65535}
FlagValues == {0, FLAG_FIRST, FLAG_LAST, FLAG_FIRST + FLAG_LAST, FLAG_RETRANSMIT, FLAG_ACK, 255}
CodecBytes == {0, 1, 128, 255}

Idle ==
    /\ receiver = NewReceiver
    /\ rxFrame = << >>
    /\ rxResult = noResult
    /\ rxCalls = << >>
    /\ completed = << >>
    /\ delivered = {}
    /\ timers = 0
    /\ txResult = noResult
    /\ txCalls = << >>

InitPacket ==
    /\ input \in [ seq : FieldValues, total : FieldValues, flags : FlagValues,
                   data : SeqsUpTo(CodecBytes, MaxCodecLen) ]
    /\ output = << >>
    /\ sender = noSender
    /\ Idle

\* packet = encodePacket(seq, total, flags, data)
Encode ==
    /\ Len(output) = 0
    /\ output' = <<encodePacket(input.seq, input.total, input.flags, input.data)>>
    /\ UNCHANGED <<input, sender, receiver, rxFrame, rxResult, rxCalls, completed, delivered, txVars>>

\* decodePacket(packet)
Decode ==
    /\ Len(output) = 1
    /\ output' = Append(output, decodePacket(output[1]))
    /\ UNCHANGED <<input, sender, receiver, rxFrame, rxResult, rxCalls, completed, delivered, txVars>>

NextPacket == Encode \/ Decode

SpecPacket == InitPacket /\ [][NextPacket]_vars

\* C9 (packet round trip): decodePacket(encodePacket(seq, total, flags, payload))
\* is {seq, total, flags, data: payload}, not a checksum error; the packet has
\* 9 + |payload| bytes: 'Q', 'S', seq and total big-endian, flags, the CRC of the
\* payload big-endian, the payload.
C9_PacketRoundTrip ==
    Len(output) = 2 =>
        LET packet == output[1]
        IN  /\ output[2] = [ seq |-> input.seq, total |-> input.total,
                             flags |-> input.flags, data |-> input.data ]
            /\ Len(packet) = 9 + Len(input.data)
            /\ packet[1] = 81 /\ packet[2] = 83
            /\ packet[3] = input.seq \div 256 /\ packet[4] = input.seq % 256
            /\ packet[5] = input.total \div 256 /\ packet[6] = input.total % 256
            /\ packet[7] = input.flags
            /\ packet[8] = crc16(input.data) \div 256 /\ packet[9] = crc16(input.data) % 256
            /\ SubSeq(packet, 10, Len(packet)) = input.data

\* a packet whose seq has a zero low byte and whose payload holds 0x00 and 0xFF
\* came back from decodePacket
C9_Witness ==
    /\ Len(output) = 2
    /\ input.seq = 256 /\ input.total = 65535 /\ input.flags = 255
    /\ input.data = <<0, 255>>
    /\ "data" \in DOMAIN output[2]

(***************************************************************************)
(* The Sender's constructor alone.                                         *)
(***************************************************************************)
SenderBytes == {0, 170, 255}

InitSender ==
    /\ input \in [ data : SeqsUpTo(SenderBytes, MaxSenderLen), chunkSize : 0..MaxSenderChunk ]
                 \cup { [data |-> WidePayload, chunkSize |-> 1] }
    /\ output = << >>
    /\ sender = noSender
    /\ Idle

\* sender = new Sender(data, {chunkSize})
Construct ==
    /\ sender = noSender
    /\ sender' = NewSender(input.data, input.chunkSize)
    /\ UNCHANGED <<input, output, receiver, rxFrame, rxResult, rxCalls, completed, delivered, txVars>>

NextSender == Construct

SpecSender == InitSender /\ [][NextSender]_vars

RECURSIVE ConcatPayloads(_, _, _)
\* the payloads of packets a..b, concatenated in that order (by halves, so that
\* long packet lists need no deep recursion)
ConcatPayloads(packets, a, b) ==
    IF a > b THEN << >>
    ELSE IF a = b THEN PayloadOf(packets[a])
    ELSE LET mid == (a + b) \div 2
         IN  ConcatPayloads(packets, a, mid) \o ConcatPayloads(packets, mid + 1, b)

HasFlag(f, flag) == (f[7] \div flag) % 2 = 1

\* what C10 says of the constructed Sender, with seq and total as written
\* (Exact) or as two-byte fields hold them (modulo 65536)
ChunkingHolds(exact) ==
    LET c == sender.chunkSize
        len == Len(input.data)
        n == Len(sender.packets)
    IN  /\ n * c >= len
        /\ n = 0 \/ (n - 1) * c < len
        /\ \A i \in 0..(n - 1) :
              LET f == sender.packets[i + 1]
              IN  /\ HeaderSeq(f) = (IF exact THEN i ELSE i % SeqFieldValues)
                  /\ HeaderTotal(f) = (IF exact THEN n ELSE n % SeqFieldValues)
                  /\ WellFramed(f) /\ CrcMatches(f)
                  /\ PayloadOf(f) = SubSeq(input.data, i * c + 1, Min((i + 1) * c, len))
                  /\ HasFlag(f, FLAG_FIRST) <=> (i = 0)
                  /\ HasFlag(f, FLAG_LAST) <=> (i = n - 1)
        /\ ConcatPayloads(sender.packets, 1, n) = input.data

\* C10 (chunking), as claimed: a Sender with chunk size c built from a payload of
\* len bytes holds n = ceil(len / c) packets; packet i has seq i, total n, the
\* payload bytes [i*c, min((i+1)*c, len)) and a matching CRC, FIRST iff i = 0, LAST
\* iff i = n - 1; the payloads in seq order make up the input.
C10_ChunkingAnySize == sender # noSender => ChunkingHolds(TRUE)

\* C10, amended: a Sender with chunk size c built from a payload of len bytes
\* holds n = ceil(len / c) packets; packet i has the payload bytes
\* [i*c, min((i+1)*c, len)) and a matching CRC, FIRST iff i = 0, LAST iff
\* i = n - 1, and its two-byte header fields hold seq = i mod 65536 and
\* total = n mod 65536, which are i and n whenever n is at most 65535; the
\* payloads in packet order make up the input.
C10_Chunking ==
    sender # noSender =>
        /\ ChunkingHolds(FALSE)
        /\ Len(sender.packets) < SeqFieldValues => ChunkingHolds(TRUE)

\* three bytes in chunks of two: a full first packet and a shorter last one
C10_Witness ==
    /\ sender # noSender
    /\ Len(input.data) = 3 /\ sender.chunkSize = 2
    /\ Len(sender.packets) = 2
    /\ Len(sender.packets[1]) = 11 /\ Len(sender.packets[2]) = 10

(***************************************************************************)
(* Sender: getNextPacket, requestRetransmit, reset and the emission loop   *)
(* (start, stop, _tick).  The delay of a timer, 1000 / fps, does not       *)
(* change what a tick does, so fps is not part of the state.               *)
(***************************************************************************)
MaxPlayLen == 2      \* longest payload of a Sender whose methods are called in any order
MaxQueue == 2        \* requestRetransmit is not called with a list that makes the retransmit queue longer than this
MaxTimers == 2       \* start() is not called when it would leave more pending timers than this
MaxRunLen == 4       \* longest payload of a Sender that is started once and left to run

\* what indexing an array outside its bounds gives: a value that is no packet string
undefined == << -1 >>

\* this.packets[seq]
packetAt(packets, seq) ==
    IF seq \in 0..(Len(packets) - 1) THEN packets[seq + 1] ELSE undefined

\* mutant: the monotonic index is served before the retransmit queue
getNextPacketIndexFirst(s) ==
    IF s.currentIndex < Len(s.packets)
    THEN LET seq == s.currentIndex
         IN  [ sender |-> [s EXCEPT !.currentIndex = @ + 1],
               result |-> [packet |-> packetAt(s.packets, seq), seq |-> seq, isRetransmit |-> FALSE] ]
    ELSE IF Len(s.retransmitQueue) > 0
    THEN LET seq == Head(s.retransmitQueue)
         IN  [ sender |-> [s EXCEPT !.retransmitQueue = Tail(@)],
               result |-> [packet |-> packetAt(s.packets, seq), seq |-> seq, isRetransmit |-> TRUE] ]
    ELSE [ sender |-> s, result |-> noPacket ]

\* sender.getNextPacket(): the Sender afterwards and the value returned
getNextPacket(s) ==
    IF Len(s.retransmitQueue) > 0
    THEN LET seq == Head(s.retransmitQueue)
         IN  [ sender |-> [s EXCEPT !.retransmitQueue = Tail(@)],
               result |-> [packet |-> packetAt(s.packets, seq), seq |-> seq, isRetransmit |-> TRUE] ]
    ELSE IF s.currentIndex >= Len(s.packets)
    THEN [ sender |-> s, result |-> noPacket ]
    ELSE LET seq == s.currentIndex
         IN  [ sender |-> [s EXCEPT !.currentIndex = @ + 1],
               result |-> [packet |-> packetAt(s.packets, seq), seq |-> seq, isRetransmit |-> FALSE] ]

\* sender.requestRetransmit(sequences)
requestRetransmit(s, sequences) == [s EXCEPT !.retransmitQueue = @ \o sequences]

\* mutant: reset() rewinds the index and keeps the queue
resetSenderKeepsQueue(s) == [s EXCEPT !.currentIndex = 0]

\* sender.reset()
resetSender(s) == [s EXCEPT !.currentIndex = 0, !.retransmitQueue = << >>]

\* sender.stop()
stop(s) == [s EXCEPT !.isPlaying = FALSE]

\* mutant: a tick that does not look at isPlaying
tickIgnoresStop(s) ==
    LET out == getNextPacket(s)
        next == out.result
    IN  [ sender |-> out.sender,
          calls |-> IF ~isNull(next) /\ s.onPacket
                    THEN << [cb |-> "onPacket", packet |-> next.packet, seq |-> next.seq,
                             total |-> Len(s.packets)] >>
                    ELSE IF isNull(next) /\ s.onComplete THEN << [cb |-> "onComplete"] >>
                    ELSE << >>,
          scheduled |-> IF ~isNull(next) THEN 1 ELSE 0 ]

\* mutant: a tick that never schedules the next one
tickNoReschedule(s) ==
    IF ~s.isPlaying THEN [ sender |-> s, calls |-> << >>, scheduled |-> 0 ]
    ELSE LET out == getNextPacket(s)
             next == out.result
         IN  [ sender |-> out.sender,
               calls |-> IF ~isNull(next) /\ s.onPacket
                         THEN << [cb |-> "onPacket", packet |-> next.packet, seq |-> next.seq,
                                  total |-> Len(s.packets)] >>
                         ELSE IF isNull(next) /\ s.onComplete THEN << [cb |-> "onComplete"] >>
                         ELSE << >>,
               scheduled |-> 0 ]

\* sender._tick(): the Sender afterwards, the callbacks invoked and the number
\* of timers it set
tick(s) ==
    IF ~s.isPlaying THEN [ sender |-> s, calls |-> << >>, scheduled |-> 0 ]
    ELSE LET out == getNextPacket(s)
             next == out.result
         IN  [ sender |-> out.sender,
               calls |-> IF ~isNull(next) /\ s.onPacket
                         THEN << [cb |-> "onPacket", packet |-> next.packet, seq |-> next.seq,
                                  total |-> Len(s.packets)] >>
                         ELSE IF isNull(next) /\ s.onComplete THEN << [cb |-> "onComplete"] >>
                         ELSE << >>,
               scheduled |-> IF ~isNull(next) THEN 1 ELSE 0 ]

\* sender.start()
start(s) == tick([s EXCEPT !.isPlaying = TRUE])

rxVars == <<receiver, rxFrame, rxResult, rxCalls, completed, delivered>>

\* a Sender on which no method has been called
Fresh(s) == s.currentIndex = 0 /\ s.retransmitQueue = << >> /\ ~s.isPlaying

\* the client installs its handlers (sender.onPacket = ...; sender.onComplete = ...)
\* before it calls a method
SetSenderHandlers ==
    /\ Fresh(sender) /\ timers = 0 /\ ~sender.onPacket /\ ~sender.onComplete
    /\ \E p, c \in BOOLEAN :
          /\ p \/ c
          /\ sender' = [sender EXCEPT !.onPacket = p, !.onComplete = c]
    /\ txResult' = noResult
    /\ txCalls' = << >>
    /\ UNCHANGED <<input, output, rxVars, timers>>

\* sender.getNextPacket()
GetNextPacket ==
    /\ LET out == getNextPacket(sender)
       IN  /\ sender' = out.sender
           /\ txResult' = out.result
    /\ txCalls' = << >>
    /\ UNCHANGED <<input, output, rxVars, timers>>

\* the seqs a client may ask for: those of the stream and the one past its end
RetransmitSeqs(s) == 0..Len(s.packets)

\* sender.requestRetransmit(sequences)
RequestRetransmit ==
    /\ \E sequences \in SeqsUpTo(RetransmitSeqs(sender), MaxQueue - Len(sender.retransmitQueue)) :
          sender' = requestRetransmit(sender, sequences)
    /\ txResult' = noResult
    /\ txCalls' = << >>
    /\ UNCHANGED <<input, output, rxVars, timers>>

\* sender.reset()
ResetSender ==
    /\ sender' = resetSender(sender)
    /\ txResult' = noResult
    /\ txCalls' = << >>
    /\ UNCHANGED <<input, output, rxVars, timers>>

\* sender.start(): the first tick runs inside the call
Start ==
    /\ LET out == start(sender)
       IN  /\ timers + out.scheduled <= MaxTimers
           /\ sender' = out.sender
           /\ txCalls' = out.calls
           /\ timers' = timers + out.scheduled
    /\ txResult' = noResult
    /\ UNCHANGED <<input, output, rxVars>>

\* sender.stop()
Stop ==
    /\ sender' = stop(sender)
    /\ txResult' = noResult
    /\ txCalls' = << >>
    /\ UNCHANGED <<input, output, rxVars, timers>>

\* a pending timer fires and runs sender._tick()
TimerFires ==
    /\ timers > 0
    /\ LET out == tick(sender)
       IN  /\ sender' = out.sender
           /\ txCalls' = txCalls \o out.calls
           /\ timers' = (timers - 1) + out.scheduled
    /\ txResult' = noResult
    /\ UNCHANGED <<input, output, rxVars>>

InitPlay == \E len \in 0..MaxPlayLen, c \in 1..MaxChunk : Constructed(StreamPayload(len), c)

NextPlay ==
    \/ SetSenderHandlers
    \/ GetNextPacket
    \/ RequestRetransmit
    \/ ResetSender
    \/ Start
    \/ Stop
    \/ TimerFires

SpecPlay == InitPlay /\ [][NextPlay]_vars

\* a Sender that is started once and left to run; its timers eventually fire
StartOnce == Fresh(sender) /\ Start

InitRun == \E len \in 0..MaxRunLen, c \in 1..MaxChunk : Constructed(StreamPayload(len), c)

NextRun ==
    \/ SetSenderHandlers
    \/ StartOnce
    \/ TimerFires

SpecRun == InitRun /\ [][NextRun]_vars /\ WF_vars(TimerFires)

(***************************************************************************)
(* Properties of the Sender's methods.                                     *)
(***************************************************************************)
IsPrefix(a, b) == Len(a) <= Len(b) /\ SubSeq(b, 1, Len(a)) = a

\* C11 (getNextPacket ordering): with a non-empty retransmit queue it returns
\* the oldest queued seq, marked as a retransmit, and leaves the index alone;
\* otherwise it returns the packet at the index and advances the index by one;
\* it returns null iff the queue is empty and the index equals the packet count.
\* requestRetransmit appends to the queue, duplicates kept.
C11_NextPacketOrdering ==
    [][ LET q == sender.retransmitQueue
            i == sender.currentIndex
            n == Len(sender.packets)
            r == txResult'
        IN  /\ txResult' # noResult =>
                  /\ Len(q) > 0 =>
                        /\ ~isNull(r) /\ r.seq = Head(q) /\ r.isRetransmit
                        /\ sender'.retransmitQueue = Tail(q)
                        /\ sender'.currentIndex = i
                  /\ (Len(q) = 0 /\ i < n) =>
                        /\ ~isNull(r) /\ r.seq = i /\ ~r.isRetransmit
                        /\ r.packet = sender.packets[i + 1]
                        /\ sender'.currentIndex = i + 1
                        /\ sender'.retransmitQueue = << >>
                  /\ isNull(r) <=> (Len(q) = 0 /\ i = n)
                  /\ isNull(r) => sender' = sender
            /\ Len(sender'.retransmitQueue) > Len(q) =>
                  /\ IsPrefix(q, sender'.retransmitQueue)
                  /\ sender'.currentIndex = i
      ]_vars

\* getNextPacket() returned the retransmit of seq 1, the older of two queued
\* copies of it, while the index was still 0
C11_Witness ==
    /\ "seq" \in DOMAIN txResult
    /\ txResult.isRetransmit /\ txResult.seq = 1
    /\ sender.retransmitQueue = <<1>>
    /\ sender.currentIndex = 0
    /\ Len(sender.packets) = 2

\* the callbacks of a run from a fresh start to exhaustion
ExpectedRun(s) ==
    [ i \in 1..Len(s.packets) |->
        [cb |-> "onPacket", packet |-> s.packets[i], seq |-> i - 1, total |-> Len(s.packets)] ]
    \o << [cb |-> "onComplete"] >>

Running == sender.isPlaying /\ sender.onPacket /\ sender.onComplete

\* C12 (a run): after one start() on a fresh Sender, with no stop(), reset() or
\* retransmit request and with timers that eventually fire, the sink is called
\* with (packet, seq, n) for seq 0..n-1 in ascending order, each once, then the
\* completion callback once, and nothing is emitted after that.
C12_RunEmitsAllThenCompletes ==
    /\ [](Running => IsPrefix(txCalls, ExpectedRun(sender)))
    /\ Running ~> [](txCalls = ExpectedRun(sender) /\ timers = 0)

\* a run over three packets has ended
C12_Witness ==
    /\ Running
    /\ Len(sender.packets) = 3
    /\ txCalls = ExpectedRun(sender)
    /\ timers = 0

\* C13 (stop): between stop() and the next start() no tick calls the sink or
\* the completion callback, and no tick changes the index or the retransmit queue.
C13_StopSilencesTicks ==
    [][ (~sender.isPlaying /\ ~sender'.isPlaying) =>
            /\ txCalls' = << >>
            /\ timers' # timers => (sender' = sender /\ timers' = timers - 1)
      ]_vars

\* stop() was called after the first packet of two went out, with the next
\* tick still scheduled
C13_Witness ==
    /\ ~sender.isPlaying /\ timers = 1
    /\ sender.onPacket /\ sender.onComplete
    /\ sender.currentIndex = 1 /\ Len(sender.packets) = 2
    /\ txCalls = << >>

\* C14 (no failure after construction): every non-null result of getNextPacket
\* carries one of the Sender's packets and a seq in [0, packet count), whatever
\* seqs were asked for with requestRetransmit.
C14_NextPacketInRange ==
    "seq" \in DOMAIN txResult =>
        /\ txResult.seq \in 0..(Len(sender.packets) - 1)
        /\ \E k \in 1..Len(sender.packets) : sender.packets[k] = txResult.packet

RECURSIVE drain(_)
\* the results of calling getNextPacket() until it returns null
drain(s) ==
    LET out == getNextPacket(s)
    IN  IF isNull(out.result) THEN << >> ELSE <<out.result>> \o drain(out.sender)

\* C15 (reset): reset() sets the index to 0 and empties the retransmit queue,
\* leaves the packets, the chunk size and the playing flag alone, and the
\* getNextPacket results that follow are those of a new Sender for the payload.
C15_ResetRewinds ==
    [][ ResetSender =>
            /\ sender'.currentIndex = 0
            /\ sender'.retransmitQueue = << >>
            /\ sender'.packets = sender.packets
            /\ sender'.chunkSize = sender.chunkSize
            /\ sender'.isPlaying = sender.isPlaying
            /\ drain(sender') = drain(NewSender(input.data, input.chunkSize))
      ]_vars

\* reset() was called on a playing Sender of two packets
C15_Witness ==
    /\ sender.isPlaying /\ timers = 1
    /\ sender.currentIndex = 0 /\ sender.retransmitQueue = << >>
    /\ Len(sender.packets) = 2
    /\ sender.onPacket
    /\ txResult = noResult /\ txCalls = << >>

(***************************************************************************)
(* NACK packets: createNackPacket and parseNackPacket.  A JS string is the *)
(* sequence of its char codes.                                             *)
(***************************************************************************)
MaxNackLen == 3      \* longest list of seqs given to createNackPacket
MaxNackText == 3     \* longest payload of a hand-made packet given to parseNackPacket

Comma == 44
Digit0 == 48
Digit9 == 57
PlusSign == 43
MinusSign == 45
ReplacementChar == 65533

RECURSIVE NumberToString(_)
\* String(n) for an integer n >= 0: its decimal digits
NumberToString(n) ==
    IF n < 10 THEN << Digit0 + n >>
    ELSE NumberToString(n \div 10) \o << Digit0 + (n % 10) >>

RECURSIVE joinFrom(_, _)
joinFrom(list, i) ==
    IF i > Len(list) THEN << >>
    ELSE << Comma >> \o NumberToString(list[i]) \o joinFrom(list, i + 1)

\* list.join(',') for a list of numbers
join(list) ==
    IF Len(list) = 0 THEN << >>
    ELSE NumberToString(list[1]) \o joinFrom(list, 2)

\* new TextEncoder().encode(str) for a string of ASCII characters
TextEncode(str) == [i \in 1..Len(str) |-> str[i]]

\* new TextDecoder().decode(bytes) for bytes that are ASCII or 0xFF: 0xFF is
\* never part of a UTF-8 sequence and decodes to U+FFFD
TextDecode(bytes) ==
    [i \in 1..Len(bytes) |-> IF bytes[i] < 128 THEN bytes[i] ELSE ReplacementChar]

RECURSIVE splitFrom(_, _, _)
\* the pieces of str from position i on, cur being the piece begun so far
splitFrom(str, i, cur) ==
    IF i > Len(str) THEN << cur >>
    ELSE IF str[i] = Comma THEN << cur >> \o splitFrom(str, i + 1, << >>)
    ELSE splitFrom(str, i + 1, Append(cur, str[i]))

\* str.split(',')
split(str) == splitFrom(str, 1, << >>)

\* the ASCII characters parseInt skips at the start of a string
WhiteSpace == {9, 10, 11, 12, 13, 32}

RECURSIVE skipWhiteSpace(_, _)
skipWhiteSpace(str, i) ==
    IF i <= Len(str) /\ str[i] \in WhiteSpace THEN skipWhiteSpace(str, i + 1) ELSE i

RECURSIVE digitsFrom(_, _, _)
\* the value of the run of decimal digits at position i, after acc
digitsFrom(str, i, acc) ==
    IF i <= Len(str) /\ str[i] \in Digit0..Digit9
    THEN digitsFrom(str, i + 1, acc * 10 + (str[i] - Digit0))
    ELSE acc

\* parseInt(str, 10): [nan |-> TRUE] or [value |-> n]
parseInt(str) ==
    LET i == skipWhiteSpace(str, 1)
        signed == i <= Len(str) /\ str[i] \in {PlusSign, MinusSign}
        j == IF signed THEN i + 1 ELSE i
    IN  IF j <= Len(str) /\ str[j] \in Digit0..Digit9
        THEN [value |-> IF signed /\ str[i] = MinusSign
                        THEN 0 - digitsFrom(str, j, 0) ELSE digitsFrom(str, j, 0)]
        ELSE [nan |-> TRUE]

\* flags & flag for a one-bit flag
flagSet(flags, flag) == (flags \div flag) % 2 = 1

\* mutant: the seqs are joined with no separator
createNackPacketNoSeparator(missingSequences) ==
    LET digits == [i \in 1..Len(missingSequences) |-> NumberToString(missingSequences[i])]
        glued[i \in 0..Len(digits)] == IF i = 0 THEN << >> ELSE glued[i - 1] \o digits[i]
    IN  encodePacket(0, 0, FLAG_RETRANSMIT, TextEncode(glued[Len(digits)]))

createNackPacket(missingSequences) ==
    encodePacket(0, 0, FLAG_RETRANSMIT, TextEncode(join(missingSequences)))

\* parseNackPacket(qrData): noPacket for null, else [list |-> the numbers]
parseNackPacket(qrData) ==
    LET packet == decodePacket(qrData)
    IN  IF isNull(packet) THEN noPacket
        \* a checksum error object has no flags: undefined & FLAG_RETRANSMIT is 0
        ELSE IF isChecksumError(packet) THEN noPacket
        ELSE IF ~flagSet(packet.flags, FLAG_RETRANSMIT) THEN noPacket
        ELSE LET pieces == split(TextDecode(packet.data))
                 parsed == [i \in 1..Len(pieces) |-> parseInt(pieces[i])]
                 numbers == SelectSeq(parsed, LAMBDA x : "value" \in DOMAIN x)
             IN  [list |-> [i \in 1..Len(numbers) |-> numbers[i].value]]

\* seqs named in a NACK: one, two and five digits, the ends of the range
NackSeqs == {0, 3, 17, 42, 65535}
\* payload bytes of hand-made packets: ',', '1', ' ', '-', 'x', 0xFF
NackTextBytes == {44, 49, 32, 45, 120, 255}
NackFlagValues == {0, FLAG_FIRST + FLAG_LAST, FLAG_RETRANSMIT, FLAG_RETRANSMIT + FLAG_FIRST, FLAG_ACK, 255}

InitNack ==
    /\ input \in [ list : SeqsUpTo(NackSeqs, MaxNackLen) ]
                 \cup [ flags : NackFlagValues, data : SeqsUpTo(NackTextBytes, MaxNackText) ]
    /\ output = << >>
    /\ sender = noSender
    /\ Idle

\* nack = createNackPacket(list)
CreateNack ==
    /\ Len(output) = 0 /\ "list" \in DOMAIN input
    /\ output' = << createNackPacket(input.list) >>
    /\ UNCHANGED <<input, sender, rxVars, txVars>>

\* a packet made with encodePacket by something else than createNackPacket
EncodeOther ==
    /\ Len(output) = 0 /\ "flags" \in DOMAIN input
    /\ \E seq \in {0, 1}, total \in {0, 2} :
          output' = << encodePacket(seq, total, input.flags, TextEncode(input.data)) >>
    /\ UNCHANGED <<input, sender, rxVars, txVars>>

\* parseNackPacket(packet)
ParseNack ==
    /\ Len(output) = 1
    /\ output' = Append(output, parseNackPacket(output[1]))
    /\ UNCHANGED <<input, sender, rxVars, txVars>>

NextNack == CreateNack \/ EncodeOther \/ ParseNack

SpecNack == InitNack /\ [][NextNack]_vars

\* C16 (NACK round trip): parseNackPacket(createNackPacket(list)) is list, in
\* the same order, for every list of seqs in 0..65535, the empty list and lists
\* with duplicates included; the NACK has seq 0, total 0 and flags RETRANSMIT;
\* parseNackPacket returns null for a packet without the RETRANSMIT flag.
C16_NackRoundTrip ==
    /\ (Len(output) >= 1 /\ "list" \in DOMAIN input) =>
          /\ WellFramed(output[1]) /\ CrcMatches(output[1])
          /\ HeaderSeq(output[1]) = 0 /\ HeaderTotal(output[1]) = 0
          /\ output[1][7] = FLAG_RETRANSMIT
    /\ (Len(output) = 2 /\ "list" \in DOMAIN input) =>
          output[2] = [list |-> input.list]
    /\ (Len(output) = 2 /\ "flags" \in DOMAIN input /\ ~flagSet(input.flags, FLAG_RETRANSMIT)) =>
          isNull(output[2])

\* the list [17, 65535, 17] came back from its NACK
C16_Witness ==
    /\ Len(output) = 2
    /\ "list" \in DOMAIN input
    /\ input.list = <<17, 65535, 17>>
    /\ output[2] = [list |-> <<17, 65535, 17>>]

(***************************************************************************)
(* The Receiver with any choice of handlers installed.                     *)
(***************************************************************************)
MaxHandlerLen == 2   \* longest stream payload when the handlers are chosen freely

\* the client installs onProgress, onComplete or both before it feeds frames
SetHandlers ==
    /\ Pristine(receiver) /\ ~receiver.onProgress /\ ~receiver.onComplete
    /\ \E p, c \in BOOLEAN :
          /\ p \/ c
          /\ receiver' = [receiver EXCEPT !.onProgress = p, !.onComplete = c]
    /\ rxFrame' = << >>
    /\ rxResult' = noResult
    /\ rxCalls' = << >>
    /\ UNCHANGED <<input, output, sender, completed, delivered, txVars>>

InitHandlers == \E len \in 1..MaxHandlerLen, c \in 1..MaxChunk : Constructed(StreamPayload(len), c)

NextHandlers ==
    \/ SetHandlers
    \/ ReceiveIntact
    \/ ReceiveCorrupted
    \/ ReceiveForeign
    \/ Reset

SpecHandlers == InitHandlers /\ [][NextHandlers]_vars

\* C17 (callback order): in a receive() call that invokes onComplete, onProgress
\* was invoked first, before it, whenever onProgress is set; nothing is invoked
\* after onComplete.
C17_ProgressBeforeComplete ==
    \A j \in 1..Len(rxCalls) :
        rxCalls[j].cb = "onComplete" =>
            /\ j = Len(rxCalls)
            /\ receiver.onProgress => (j = 2 /\ rxCalls[1].cb = "onProgress")
            /\ ~receiver.onProgress => j = 1

\* the call that stored the second of two packets invoked onProgress(2, 2, [])
\* and then onComplete
C17_Witness ==
    /\ Len(rxCalls) = 2
    /\ rxCalls[1].cb = "onProgress" /\ rxCalls[1].received = 2 /\ rxCalls[1].missing = << >>
    /\ rxCalls[2].cb = "onComplete"
    /\ receiver.totalPackets = 2

(***************************************************************************)
(* QR encoder (src/qr/qr-encoder.js).  An array is a sequence; JS index i  *)
(* is TLA+ index i + 1, and the tables indexed by version - 1 are indexed  *)
(* by version.  A module matrix is a sequence of rows of 0 / 1.            *)
(***************************************************************************)
GF_PRIMITIVE == 285      \* 0x11d
GF_STRIDE == 16          \* rounds of the initGF loop evaluated in one stretch

\* one round of the initGF loop: x <<= 1; if (x & 0x100) x ^= 0x11d
gfNext(x) == IF x * 2 >= 256 THEN BitXor(x * 2, GF_PRIMITIVE) ELSE x * 2

RECURSIVE gfAdvance(_, _)
\* x after n more rounds (x is never 0)
gfAdvance(x, n) == IF x = 0 \/ n = 0 THEN x ELSE gfAdvance(gfNext(x), n - 1)

\* x at the start of round GF_STRIDE * k
gfMilestone[k \in 0..(255 \div GF_STRIDE)] ==
    IF k = 0 THEN 1 ELSE gfAdvance(gfMilestone[k - 1], GF_STRIDE)

\* GF_EXP[i] for i < 255
gfExpLow(i) == gfAdvance(gfMilestone[i \div GF_STRIDE], i % GF_STRIDE)

\* the second loop copies GF_EXP[i - 255], for i >= 510 an entry that is itself a copy
GF_EXP == [i \in 0..511 |-> IF i < 255 THEN gfExpLow(i)
                            ELSE IF i - 255 < 255 THEN gfExpLow(i - 255)
                            ELSE gfExpLow(i - 255 - 255)]

\* GF_LOG[x] = i where GF_EXP[i] = x, i < 255
GF_LOG == [x \in 1..255 |-> CHOOSE i \in 0..254 : gfExpLow(i) = x]

gfMul(x, y) == IF x = 0 \/ y = 0 THEN 0 ELSE GF_EXP[GF_LOG[x] + GF_LOG[y]]

gfPow(x, power) == GF_EXP[(GF_LOG[x] * power) % 255]

\* result after the rounds i.. of the outer loop of gfPolyMul (i is a JS index)
RECURSIVE gfPolyMulFrom(_, _, _, _)
gfPolyMulFrom(p, q, i, result) ==
    IF Len(result) = 0 \/ i >= Len(p) THEN result
    ELSE gfPolyMulFrom(p, q, i + 1,
            [k \in 1..Len(result) |->
                LET j == (k - 1) - i
                IN  IF j >= 0 /\ j < Len(q)
                    THEN BitXor(result[k], gfMul(p[i + 1], q[j + 1]))
                    ELSE result[k]])

gfPolyMul(p, q) == gfPolyMulFrom(p, q, 0, [k \in 1..(Len(p) + Len(q) - 1) |-> 0])

RECURSIVE rsGeneratorPolyFrom(_, _, _)
rsGeneratorPolyFrom(g, i, nsym) ==
    IF Len(g) = 0 \/ i >= nsym THEN g
    ELSE rsGeneratorPolyFrom(gfPolyMul(g, <<1, gfPow(2, i)>>), i + 1, nsym)

rsGeneratorPoly(nsym) == rsGeneratorPolyFrom(<<1>>, 0, nsym)

\* res after the rounds i.. of the division loop of rsEncode
RECURSIVE rsEncodeFrom(_, _, _, _)
rsEncodeFrom(res, gen, i, dataLength) ==
    IF Len(res) = 0 \/ i >= dataLength THEN res
    ELSE LET coef == res[i + 1]
         IN  rsEncodeFrom(
                IF coef # 0
                THEN [k \in 1..Len(res) |->
                        LET j == (k - 1) - i
                        IN  IF j >= 0 /\ j < Len(gen)
                            THEN BitXor(res[k], gfMul(gen[j + 1], coef))
                            ELSE res[k]]
                ELSE res,
                gen, i + 1, dataLength)

\* mutant: the remainder is taken one position early
rsEncodeShifted(data, nsym) ==
    LET gen == rsGeneratorPoly(nsym)
        res0 == data \o [k \in 1..nsym |-> 0]
        res == rsEncodeFrom(res0, gen, 0, Len(data))
    IN  SubSeq(res, Len(data), Len(data) + nsym - 1)

rsEncode(data, nsym) ==
    LET gen == rsGeneratorPoly(nsym)
        res0 == data \o [k \in 1..nsym |-> 0]
        res == rsEncodeFrom(res0, gen, 0, Len(data))
    IN  SubSeq(res, Len(data) + 1, Len(data) + nsym)

\* [ecCodewordsPerBlock, numBlocks (group1), dataCodewordsPerBlock (group1),
\*  numBlocks (group2), dataCodewordsPerBlock (group2)] per level and version
EC_BLOCKS ==
    [
      L |-> <<
        <<7, 1, 19, 0, 0>>, <<10, 1, 34, 0, 0>>, <<15, 1, 55, 0, 0>>, <<20, 1, 80, 0, 0>>,
        <<26, 1, 108, 0, 0>>, <<18, 2, 68, 0, 0>>, <<20, 2, 78, 0, 0>>, <<24, 2, 97, 0, 0>>,
        <<30, 2, 116, 0, 0>>, <<18, 2, 68, 2, 69>>, <<20, 4, 81, 0, 0>>, <<24, 2, 92, 2, 93>>,
        <<26, 4, 107, 0, 0>>, <<30, 3, 115, 1, 116>>, <<22, 5, 87, 1, 88>>, <<24, 5, 98, 1, 99>>,
        <<28, 1, 107, 5, 108>>, <<30, 5, 120, 1, 121>>, <<28, 3, 113, 4, 114>>, <<28, 3, 107, 5, 108>>,
        <<28, 4, 116, 4, 117>>, <<28, 2, 111, 7, 112>>, <<30, 4, 121, 5, 122>>, <<30, 6, 117, 4, 118>>,
        <<26, 8, 106, 4, 107>>, <<28, 10, 114, 2, 115>>, <<30, 8, 122, 4, 123>>, <<30, 3, 117, 10, 118>>,
        <<30, 7, 116, 7, 117>>, <<30, 5, 115, 10, 116>>, <<30, 13, 115, 3, 116>>, <<30, 17, 115, 0, 0>>,
        <<30, 17, 115, 1, 116>>, <<30, 13, 115, 6, 116>>, <<30, 12, 121, 7, 122>>, <<30, 6, 121, 14, 122>>,
        <<30, 17, 122, 4, 123>>, <<30, 4, 122, 18, 123>>, <<30, 20, 117, 4, 118>>, <<30, 19, 118, 6, 119>> >>,
      M |-> <<
        <<10, 1, 16, 0, 0>>, <<16, 1, 28, 0, 0>>, <<26, 1, 44, 0, 0>>, <<18, 2, 32, 0, 0>>,
        <<24, 2, 43, 0, 0>>, <<16, 4, 27, 0, 0>>, <<18, 4, 31, 0, 0>>, <<22, 2, 38, 2, 39>>,
        <<22, 3, 36, 2, 37>>, <<26, 4, 43, 1, 44>>, <<30, 1, 50, 4, 51>>, <<22, 6, 36, 2, 37>>,
        <<22, 8, 37, 1, 38>>, <<24, 4, 40, 5, 41>>, <<24, 5, 41, 5, 42>>, <<28, 7, 45, 3, 46>>,
        <<28, 10, 46, 1, 47>>, <<26, 9, 43, 4, 44>>, <<26, 3, 44, 11, 45>>, <<26, 3, 41, 13, 42>>,
        <<26, 17, 42, 0, 0>>, <<28, 17, 46, 0, 0>>, <<28, 4, 47, 14, 48>>, <<28, 6, 45, 14, 46>>,
        <<28, 8, 47, 13, 48>>, <<28, 19, 46, 4, 47>>, <<28, 22, 45, 3, 46>>, <<28, 3, 45, 23, 46>>,
        <<28, 21, 45, 7, 46>>, <<28, 19, 47, 10, 48>>, <<28, 2, 46, 29, 47>>, <<28, 10, 46, 23, 47>>,
        <<28, 14, 46, 21, 47>>, <<28, 14, 46, 23, 47>>, <<28, 12, 47, 26, 48>>, <<28, 6, 47, 34, 48>>,
        <<28, 29, 46, 14, 47>>, <<28, 13, 46, 32, 47>>, <<28, 40, 47, 7, 48>>, <<28, 18, 47, 31, 48>> >>,
      Q |-> <<
        <<13, 1, 13, 0, 0>>, <<22, 1, 22, 0, 0>>, <<18, 2, 17, 0, 0>>, <<26, 2, 24, 0, 0>>,
        <<18, 2, 15, 2, 16>>, <<24, 4, 19, 0, 0>>, <<18, 2, 14, 4, 15>>, <<22, 4, 18, 2, 19>>,
        <<20, 4, 16, 4, 17>>, <<24, 6, 19, 2, 20>>, <<28, 4, 22, 4, 23>>, <<26, 4, 20, 6, 21>>,
        <<24, 8, 20, 4, 21>>, <<20, 11, 16, 5, 17>>, <<30, 5, 24, 7, 25>>, <<24, 15, 19, 2, 20>>,
        <<28, 1, 22, 15, 23>>, <<28, 17, 22, 1, 23>>, <<26, 17, 21, 4, 22>>, <<30, 15, 24, 5, 25>>,
        <<28, 17, 22, 6, 23>>, <<30, 7, 24, 16, 25>>, <<30, 11, 24, 14, 25>>, <<30, 11, 24, 16, 25>>,
        <<30, 7, 24, 22, 25>>, <<28, 28, 22, 6, 23>>, <<30, 8, 23, 26, 24>>, <<30, 4, 24, 31, 25>>,
        <<30, 1, 23, 37, 24>>, <<30, 15, 24, 25, 25>>, <<30, 42, 24, 1, 25>>, <<30, 10, 24, 35, 25>>,
        <<30, 29, 24, 19, 25>>, <<30, 44, 24, 7, 25>>, <<30, 39, 24, 14, 25>>, <<30, 46, 24, 10, 25>>,
        <<30, 49, 24, 10, 25>>, <<30, 48, 24, 14, 25>>, <<30, 43, 24, 22, 25>>, <<30, 34, 24, 34, 25>> >>,
      H |-> <<
        <<17, 1, 9, 0, 0>>, <<28, 1, 16, 0, 0>>, <<22, 2, 13, 0, 0>>, <<16, 4, 9, 0, 0>>,
        <<22, 2, 11, 2, 12>>, <<28, 4, 15, 0, 0>>, <<26, 4, 13, 1, 14>>, <<26, 4, 14, 2, 15>>,
        <<24, 4, 12, 4, 13>>, <<28, 6, 15, 2, 16>>, <<24, 3, 12, 8, 13>>, <<28, 7, 14, 4, 15>>,
        <<22, 12, 11, 4, 12>>, <<24, 11, 12, 5, 13>>, <<24, 11, 12, 7, 13>>, <<30, 3, 15, 13, 16>>,
        <<28, 2, 14, 17, 15>>, <<28, 2, 14, 19, 15>>, <<26, 9, 13, 16, 14>>, <<28, 15, 15, 10, 16>>,
        <<30, 19, 16, 6, 17>>, <<24, 34, 13, 0, 0>>, <<30, 16, 15, 14, 16>>, <<30, 30, 16, 2, 17>>,
        <<30, 22, 15, 13, 16>>, <<30, 33, 16, 4, 17>>, <<30, 12, 15, 28, 16>>, <<30, 11, 15, 31, 16>>,
        <<30, 19, 15, 26, 16>>, <<30, 23, 15, 25, 16>>, <<30, 23, 15, 28, 16>>, <<30, 19, 15, 35, 16>>,
        <<30, 11, 15, 46, 16>>, <<30, 59, 16, 1, 17>>, <<30, 22, 15, 41, 16>>, <<30, 2, 15, 64, 16>>,
        <<30, 24, 15, 46, 16>>, <<30, 42, 15, 32, 16>>, <<30, 10, 15, 67, 16>>, <<30, 20, 15, 61, 16>> >>
    ]

ECLevels == {"L", "M", "Q", "H"}
MAX_VERSION == 40

getDataCapacity(version, ecLevel) ==
    LET blocks == EC_BLOCKS[ecLevel][version]
    IN  blocks[2] * blocks[3] + blocks[4] * blocks[5]

ALIGNMENT_POSITIONS ==
    <<
        <<>>, <<6, 18>>, <<6, 22>>,
        <<6, 26>>, <<6, 30>>, <<6, 34>>,
        <<6, 22, 38>>, <<6, 24, 42>>, <<6, 26, 46>>,
        <<6, 28, 50>>, <<6, 30, 54>>, <<6, 32, 58>>,
        <<6, 34, 62>>, <<6, 26, 46, 66>>, <<6, 26, 48, 70>>,
        <<6, 26, 50, 74>>, <<6, 30, 54, 78>>, <<6, 30, 56, 82>>,
        <<6, 30, 58, 86>>, <<6, 34, 62, 90>>, <<6, 28, 50, 72, 94>>,
        <<6, 26, 50, 74, 98>>, <<6, 30, 54, 78, 102>>, <<6, 28, 54, 80, 106>>,
        <<6, 32, 58, 84, 110>>, <<6, 30, 58, 86, 114>>, <<6, 34, 62, 90, 118>>,
        <<6, 26, 50, 74, 98, 122>>, <<6, 30, 54, 78, 102, 126>>, <<6, 26, 52, 78, 104, 130>>,
        <<6, 30, 56, 82, 108, 134>>, <<6, 34, 60, 86, 112, 138>>, <<6, 30, 58, 86, 114, 142>>,
        <<6, 34, 62, 90, 118, 146>>, <<6, 30, 54, 78, 102, 126, 150>>, <<6, 24, 50, 76, 102, 128, 154>>,
        <<6, 28, 54, 80, 106, 132, 158>>, <<6, 32, 58, 84, 110, 136, 162>>, <<6, 26, 54, 82, 110, 138, 166>>,
        <<6, 30, 58, 86, 114, 142, 170>>
    >>

VERSION_INFO ==
    <<
        31892, 34236, 39577, 42195, 48118, 51042, 55367, 58893,
        63784, 68472, 70749, 76311, 79154, 84390, 87683, 92361,
        96236, 102084, 102881, 110507, 110734, 117786, 119615, 126325,
        127568, 133589, 136944, 141498, 145311, 150283, 152622, 158308,
        161089, 167017
    >>

FORMAT_INFO ==
    [
      L |-> <<30660, 29427, 32170, 30877, 26159, 25368, 27713, 26998>>,
      M |-> <<21522, 20773, 24188, 23371, 17913, 16590, 20375, 19104>>,
      Q |-> <<13663, 12392, 16177, 14854, 9396, 8579, 11994, 11245>>,
      H |-> <<5769, 5054, 7399, 6608, 1890, 597, 3340, 2107>>
    ]

RECURSIVE Pow2(_)
Pow2(n) == IF n = 0 THEN 1 ELSE 2 * Pow2(n - 1)

\* (x >> i) & 1 for x >= 0
BitAt(x, i) == (x \div Pow2(i)) % 2

Max(a, b) == IF a > b THEN a ELSE b

TOO_LONG == "Data too long for QR code (max ~2953 bytes)"

\* mutant: the character count is taken as 8 bits wide in every version
versionFitsShortCount(len, v, ecLevel) ==
    LET capacity == getDataCapacity(v, ecLevel)
        available == capacity * 8 - (4 + 8) - 4
    IN  len * 8 <= available

\* the test of getVersion for one version
versionFits(len, v, ecLevel) ==
    LET capacity == getDataCapacity(v, ecLevel)
        countBits == IF v < 10 THEN 8 ELSE 16
        headerBits == 4 + countBits
        available == capacity * 8 - headerBits - 4
    IN  len * 8 <= available

RECURSIVE getVersionFrom(_, _, _)
\* the loop of getVersion from version v on
getVersionFrom(len, ecLevel, v) ==
    IF v > MAX_VERSION THEN [threw |-> TOO_LONG]
    ELSE IF versionFits(len, v, ecLevel) THEN [version |-> v]
    ELSE getVersionFrom(len, ecLevel, v + 1)

\* getVersion reads data.length only
getVersionOfLength(len, ecLevel) == getVersionFrom(len, ecLevel, 1)

getVersion(data, ecLevel) == getVersionOfLength(Len(data), ecLevel)

\* the bits of a list of bytes
BytesToBits(bytes) == [k \in 1..(8 * Len(bytes)) |-> BitAt(bytes[((k - 1) \div 8) + 1], 7 - ((k - 1) % 8))]

PAD_BYTES == <<236, 17>>     \* 0xec, 0x11

encodeData(data, version, ecLevel) ==
    LET capacity == getDataCapacity(version, ecLevel)
        mode == <<0, 1, 0, 0>>
        countBits == IF version < 10 THEN 8 ELSE 16
        count == [k \in 1..countBits |-> BitAt(Len(data), countBits - k)]
        chars == BytesToBits([i \in 1..Len(data) |-> data[i] % 256])
        bits1 == mode \o count \o chars
        remaining == capacity * 8 - Len(bits1)
        bits2 == bits1 \o [k \in 1..Min(4, remaining) |-> 0]
        bits3 == bits2 \o [k \in 1..((8 - (Len(bits2) % 8)) % 8) |-> 0]
        padCount == IF Len(bits3) < capacity * 8 THEN Ceil(capacity * 8 - Len(bits3), 8) ELSE 0
        bits == bits3 \o BytesToBits([k \in 1..padCount |-> PAD_BYTES[((k - 1) % 2) + 1]])
    IN  [b \in 1..Ceil(Len(bits), 8) |->
            bits[8 * b - 7] * 128 + bits[8 * b - 6] * 64 + bits[8 * b - 5] * 32 + bits[8 * b - 4] * 16
            + bits[8 * b - 3] * 8 + bits[8 * b - 2] * 4 + bits[8 * b - 1] * 2 + bits[8 * b]]

\* array.slice(start, end)
Slice(array, begin, end) == SubSeq(array, begin + 1, Min(end, Len(array)))

\* the blocks dataBytes is split into, group 1 first
splitBlocks(dataBytes, version, ecLevel) ==
    LET blocks == EC_BLOCKS[ecLevel][version]
        blocks1 == blocks[2]
        data1 == blocks[3]
        blocks2 == blocks[4]
        data2 == blocks[5]
    IN  [b \in 1..(blocks1 + blocks2) |->
            IF b <= blocks1
            THEN Slice(dataBytes, (b - 1) * data1, b * data1)
            ELSE Slice(dataBytes, blocks1 * data1 + (b - blocks1 - 1) * data2,
                       blocks1 * data1 + (b - blocks1) * data2)]

\* for (i < rounds) for (block of blocks) if (i < block.length) push(block[i])
interleave(blocks, rounds) ==
    LET n == Len(blocks)
        slots == [k \in 1..(rounds * n) |-> [i |-> (k - 1) \div n, b |-> ((k - 1) % n) + 1]]
        filled == SelectSeq(slots, LAMBDA s : s.i < Len(blocks[s.b]))
    IN  [k \in 1..Len(filled) |-> blocks[filled[k].b][filled[k].i + 1]]

addErrorCorrection(dataBytes, version, ecLevel) ==
    LET blocks == EC_BLOCKS[ecLevel][version]
        ecPerBlock == blocks[1]
        maxDataLen == Max(blocks[3], blocks[5])
        dataBlocks == splitBlocks(dataBytes, version, ecLevel)
        ecBlocks == [b \in 1..Len(dataBlocks) |-> rsEncode(dataBlocks[b], ecPerBlock)]
    IN  interleave(dataBlocks, maxDataLen) \o interleave(ecBlocks, ecPerBlock)

(***************************************************************************)
(* The module matrix.  matrix and reserved are the two size x size arrays  *)
(* of the code, kept row after row: module (r, c) is entry r * size + c +  *)
(* 1.  A function of the code that writes a region of modules is the array *)
(* with that region rewritten.                                             *)
(***************************************************************************)

\* an array with every element computed
Array(elements) == elements \o << >>

RowOf(size, k) == (k - 1) \div size
ColOf(size, k) == (k - 1) % size
At(size, r, c) == r * size + c + 1
InGrid(size, r, c) == r >= 0 /\ r < size /\ c >= 0 /\ c < size

\* const size = version * 4 + 17
matrixSize(version) == version * 4 + 17

createMatrix(version) ==
    LET size == matrixSize(version)
    IN  [matrix |-> Array([k \in 1..(size * size) |-> 0]),
         reserved |-> Array([k \in 1..(size * size) |-> FALSE]),
         size |-> size]

\* matrix[r][c] = val(r, c), reserved[r][c] = true for every module in region
writeRegion(m, region(_, _), val(_, _)) ==
    [m EXCEPT
       !.matrix = Array([k \in 1..(m.size * m.size) |->
                      IF region(RowOf(m.size, k), ColOf(m.size, k))
                      THEN val(RowOf(m.size, k), ColOf(m.size, k)) ELSE m.matrix[k]]),
       !.reserved = Array([k \in 1..(m.size * m.size) |->
                      region(RowOf(m.size, k), ColOf(m.size, k)) \/ m.reserved[k]])]

addFinderPattern(m, row, col) ==
    LET region(nr, nc) == (nr - row) \in -1..7 /\ (nc - col) \in -1..7
        val(nr, nc) ==
            LET r == nr - row
                c == nc - col
            IN  IF r >= 0 /\ r <= 6 /\ c >= 0 /\ c <= 6
                   /\ (r = 0 \/ r = 6 \/ c = 0 \/ c = 6 \/ (r >= 2 /\ r <= 4 /\ c >= 2 /\ c <= 4))
                THEN 1 ELSE 0
    IN  writeRegion(m, region, val)

Abs(x) == IF x < 0 THEN -x ELSE x

addAlignmentPattern(m, row, col) ==
    LET taken == \E r \in -2..2, c \in -2..2 :
                    /\ InGrid(m.size, row + r, col + c)
                    /\ m.reserved[At(m.size, row + r, col + c)]
        region(nr, nc) == (nr - row) \in -2..2 /\ (nc - col) \in -2..2
        val(nr, nc) ==
            LET r == nr - row
                c == nc - col
            IN  IF Abs(r) = 2 \/ Abs(c) = 2 \/ (r = 0 /\ c = 0) THEN 1 ELSE 0
    IN  IF taken THEN m ELSE writeRegion(m, region, val)

RECURSIVE addAlignmentPatternsFrom(_, _, _)
\* for (r of positions) for (c of positions) addAlignmentPattern(r, c), from the i-th pair on
addAlignmentPatternsFrom(m, positions, i) ==
    IF m.size = 0 \/ i >= Len(positions) * Len(positions) THEN m
    ELSE addAlignmentPatternsFrom(
             addAlignmentPattern(m, positions[(i \div Len(positions)) + 1],
                                    positions[(i % Len(positions)) + 1]),
             positions, i + 1)

addAlignmentPatterns(m, version) ==
    IF version >= 2 THEN addAlignmentPatternsFrom(m, ALIGNMENT_POSITIONS[version], 0) ELSE m

addTimingPatterns(m) ==
    LET onLine(i) == i >= 8 /\ i < m.size - 8
        region(r, c) == (r = 6 /\ onLine(c)) \/ (c = 6 /\ onLine(r))
        val(r, c) == IF r = 6 THEN (c + 1) % 2 ELSE (r + 1) % 2
    IN  writeRegion(m, region, val)

addVersionInfo(m, version) ==
    LET size == m.size
        info == VERSION_INFO[version - 6]
        bottomLeft(r, c) == r - (size - 11) \in 0..2 /\ c \in 0..5
        topRight(r, c) == c - (size - 11) \in 0..2 /\ r \in 0..5
        region(r, c) == bottomLeft(r, c) \/ topRight(r, c)
        val(r, c) == IF topRight(r, c) THEN BitAt(info, r * 3 + (c - (size - 11)))
                     ELSE BitAt(info, c * 3 + (r - (size - 11)))
    IN  IF version < 7 THEN m ELSE writeRegion(m, region, val)

addFormatInfo(m, ecLevel, mask) ==
    LET size == m.size
        info == FORMAT_INFO[ecLevel][mask + 1]
        dark(r, c) == r = size - 8 /\ c = 8
        lowerLeft(r, c) == c = 8 /\ size - 1 - r \in 0..6
        upperRight(r, c) == r = 8 /\ size - 1 - c \in 0..7
        region(r, c) ==
            \/ (r = 8 /\ c \in (0..5) \cup {7, 8})
            \/ (c = 8 /\ r \in (0..5) \cup {7})
            \/ upperRight(r, c) \/ lowerLeft(r, c) \/ dark(r, c)
        \* the later write wins where two writes meet
        val(r, c) ==
            IF dark(r, c) THEN 1
            ELSE IF lowerLeft(r, c) THEN BitAt(info, 14 - (size - 1 - r))
            ELSE IF upperRight(r, c) THEN BitAt(info, size - 1 - c)
            ELSE IF c = 8 /\ r <= 5 THEN BitAt(info, r)
            ELSE IF c = 8 /\ r = 7 THEN BitAt(info, 6)
            ELSE IF c = 8 THEN BitAt(info, 7)
            ELSE IF c = 7 THEN BitAt(info, 8)
            ELSE BitAt(info, 14 - c)
    IN  writeRegion(m, region, val)

(***************************************************************************)
(* placeData walks the column pairs from the right, the first pair upward, *)
(* the next downward and so on, and gives the next bit to every module not *)
(* reserved.  The walk is indexed here: pair j (from 1), step o within it  *)
(* (row * 2 + c of the code's loops).                                      *)
(***************************************************************************)
pairCount(size) == (size - 1) \div 2

\* the value of col in the j-th round of the outer loop
pairCol(size, j) ==
    LET col == size - 1 - 2 * (j - 1)
    IN  IF col <= 6 THEN col - 1 ELSE col

\* the module visited at step o of pair j
walkAt(size, j, o) ==
    LET row == o \div 2
        upward == j % 2 = 1
        actualRow == IF upward THEN size - 1 - row ELSE row
        actualCol == pairCol(size, j) - (o % 2)
    IN  At(size, actualRow, actualCol)

\* the pair that visits column c, 0 for the column no pair visits
pairOf(size, c) ==
    IF c > 6 THEN ((size - 1 - c) \div 2) + 1
    ELSE IF c = 6 THEN 0
    ELSE pairCount(size) - (c \div 2)

\* the step of its pair at which module (r, c) is visited
stepOf(size, r, c) ==
    LET j == pairOf(size, c)
        row == IF j % 2 = 1 THEN size - 1 - r ELSE r
    IN  row * 2 + (pairCol(size, j) - c)

RECURSIVE SumFirst(_, _)
SumFirst(counts, n) == IF n = 0 THEN 0 ELSE counts[n] + SumFirst(counts, n - 1)

placeData(m, data) ==
    LET size == m.size
        bits == Array(BytesToBits(data))
        \* the unreserved modules of each pair, and of the pairs before each pair
        inPair == Array([j \in 1..pairCount(size) |->
                      Cardinality({o \in 0..(2 * size - 1) : ~m.reserved[walkAt(size, j, o)]})])
        before == Array([j \in 1..pairCount(size) |-> SumFirst(inPair, j - 1)])
        \* the value of bitIndex when module k is visited
        bitIndex(k) ==
            LET j == pairOf(size, ColOf(size, k))
                own == stepOf(size, RowOf(size, k), ColOf(size, k))
            IN  before[j] + Cardinality({o \in 0..(own - 1) : ~m.reserved[walkAt(size, j, o)]})
    IN  [m EXCEPT !.matrix = Array([k \in 1..(size * size) |->
            IF m.reserved[k] THEN m.matrix[k]
            ELSE IF bitIndex(k) < Len(bits) THEN bits[bitIndex(k) + 1] ELSE 0])]

maskFunction(mask, r, c) ==
    CASE mask = 0 -> (r + c) % 2 = 0
      [] mask = 1 -> r % 2 = 0
      [] mask = 2 -> c % 3 = 0
      [] mask = 3 -> (r + c) % 3 = 0
      [] mask = 4 -> ((r \div 2) + (c \div 3)) % 2 = 0
      [] mask = 5 -> ((r * c) % 2) + ((r * c) % 3) = 0
      [] mask = 6 -> (((r * c) % 2) + ((r * c) % 3)) % 2 = 0
      [] mask = 7 -> (((r + c) % 2) + ((r * c) % 3)) % 2 = 0

\* mutant: the mask is applied to every module, reserved or not
applyMaskAll(m, mask) ==
    [m EXCEPT !.matrix = Array([k \in 1..(m.size * m.size) |->
        IF maskFunction(mask, RowOf(m.size, k), ColOf(m.size, k))
        THEN 1 - m.matrix[k]
        ELSE m.matrix[k]])]

applyMask(m, mask) ==
    [m EXCEPT !.matrix = Array([k \in 1..(m.size * m.size) |->
        IF ~m.reserved[k] /\ maskFunction(mask, RowOf(m.size, k), ColOf(m.size, k))
        THEN 1 - m.matrix[k]         \* ^= 1
        ELSE m.matrix[k]])]

RECURSIVE scoreLine(_, _, _, _)
\* rule 1 on one row or column: the inner loop from index i (from 0) on
scoreLine(line, i, count, penalty) ==
    IF count + penalty >= 0 /\ i < Len(line)
    THEN IF line[i + 1] = line[i]
         THEN scoreLine(line, i + 1, count + 1, penalty)
         ELSE scoreLine(line, i + 1, 1, IF count >= 5 THEN penalty + count - 2 ELSE penalty)
    ELSE IF count >= 5 THEN penalty + count - 2 ELSE penalty

scorePenalty(matrix, size) ==
    LET rowLine(r) == Array([c \in 1..size |-> matrix[At(size, r, c - 1)]])
        colLine(c) == Array([r \in 1..size |-> matrix[At(size, r - 1, c)]])
        rows == Array([r \in 1..size |-> scoreLine(rowLine(r - 1), 1, 1, 0)])
        cols == Array([c \in 1..size |-> scoreLine(colLine(c - 1), 1, 1, 0)])
        blocks == {k \in 1..(size * size) :
                     /\ RowOf(size, k) < size - 1 /\ ColOf(size, k) < size - 1
                     /\ matrix[k] = matrix[k + 1]
                     /\ matrix[k] = matrix[k + size]
                     /\ matrix[k] = matrix[k + size + 1]}
    IN  SumFirst(rows, size) + SumFirst(cols, size) + 3 * Cardinality(blocks)

\* the body of the loop of generate for one mask, up to the function patterns
functionPatterns(version, ecLevel, mask) ==
    LET m0 == createMatrix(version)
        m1 == addFinderPattern(m0, 0, 0)
        m2 == addFinderPattern(m1, 0, m0.size - 7)
        m3 == addFinderPattern(m2, m0.size - 7, 0)
        m4 == addAlignmentPatterns(m3, version)
        m5 == addTimingPatterns(m4)
        m6 == addVersionInfo(m5, version)
    IN  addFormatInfo(m6, ecLevel, mask)

\* the body of the loop of generate for one mask
maskedMatrix(finalData, version, ecLevel, mask) ==
    LET m7 == functionPatterns(version, ecLevel, mask)
        m8 == placeData(m7, finalData)
    IN  applyMask(m8, mask)

RECURSIVE bestMaskFrom(_, _, _)
\* the loop of generate from mask on; best is null or the matrix kept so far
bestMaskFrom(candidates, mask, best) ==
    IF mask >= 8 THEN best
    ELSE LET matrix == candidates[mask + 1].matrix
             penalty == scorePenalty(matrix, candidates[mask + 1].size)
         IN  IF "null" \in DOMAIN best \/ penalty < best.penalty
             THEN bestMaskFrom(candidates, mask + 1,
                               [matrix |-> matrix, penalty |-> penalty, mask |-> mask,
                                length |-> candidates[mask + 1].size])
             ELSE bestMaskFrom(candidates, mask + 1, best)

\* mutant: a payload no version admits yields an empty matrix
generateSwallowsTooLong(text, ecLevel) ==
    LET version == getVersion(text, ecLevel)
    IN  IF "threw" \in DOMAIN version THEN [matrix |-> << >>, size |-> 0]
        ELSE LET finalData == addErrorCorrection(encodeData(text, version.version, ecLevel),
                                                 version.version, ecLevel)
                 candidates == [mask \in 1..8 |-> maskedMatrix(finalData, version.version, ecLevel, mask - 1)]
                 best == bestMaskFrom(candidates, 0, noPacket)
             IN  [matrix |-> best.matrix, size |-> best.length]

generate(text, ecLevel) ==
    LET version == getVersion(text, ecLevel)
    IN  IF "threw" \in DOMAIN version THEN version
        ELSE LET dataBytes == encodeData(text, version.version, ecLevel)
                 finalData == addErrorCorrection(dataBytes, version.version, ecLevel)
                 candidates == [mask \in 1..8 |-> maskedMatrix(finalData, version.version, ecLevel, mask - 1)]
                 best == bestMaskFrom(candidates, 0, noPacket)
             IN  [matrix |-> best.matrix, size |-> best.length]       \* size: bestMatrix.length

(***************************************************************************)
(* The matrix-level functions of the first QRDecoder of qr-worker.js:      *)
(* readFormat, isFunc, getAlignPos, unmask, extractBits, decodeBits.  The  *)
(* image stages of decode (binarize, findFinderPatterns, orderPatterns,    *)
(* sampleGrid) work on pixels in floating point and are not modelled.  A   *)
(* string is the list of its character codes.                              *)
(***************************************************************************)
FORMAT_MASK == 21522       \* 0x5412
EC_OF_BITS == <<"M", "L", "H", "Q">>

readFormat(matrix, size) ==
    LET cells == [c \in 1..6 |-> matrix[At(size, 8, c - 1)]]
                 \o << matrix[At(size, 8, 7)], matrix[At(size, 8, 8)], matrix[At(size, 7, 8)] >>
                 \o [n \in 1..6 |-> matrix[At(size, 6 - n, 8)]]
        read == SumFirst([n \in 1..15 |-> cells[n] * Pow2(15 - n)], 15)
        bits == BitXor(read, FORMAT_MASK)
    IN  [ec |-> EC_OF_BITS[((bits \div 8192) % 4) + 1], mask |-> (bits \div 1024) % 8]

getAlignPos(v, size) ==
    LET n == (v \div 7) + 2
        first == 6
        last == size - 7
        step == Ceil(last - first, (n - 1) * 2) * 2
    IN  IF v = 1 THEN << >>
        ELSE IF n = 2 THEN <<first, last>>
        ELSE <<first>> \o [i \in 1..(n - 2) |-> last - (n - 1 - i) * step] \o <<last>>

isFunc(r, c, size, v) ==
    \/ r < 9 /\ c < 9
    \/ r < 9 /\ c >= size - 8
    \/ r >= size - 8 /\ c < 9
    \/ r = 6 \/ c = 6
    \/ r = size - 8 /\ c = 8
    \/ /\ v >= 7
       /\ \/ r < 6 /\ c >= size - 11 /\ c < size - 8
          \/ c < 6 /\ r >= size - 11 /\ r < size - 8
    \/ /\ v >= 2
       /\ LET pos == getAlignPos(v, size)
          IN  \E i \in 1..Len(pos), j \in 1..Len(pos) :
                 /\ ~ \/ pos[i] = 6 /\ pos[j] = 6
                      \/ pos[i] = 6 /\ pos[j] = size - 7
                      \/ pos[i] = size - 7 /\ pos[j] = 6
                 /\ Abs(r - pos[i]) <= 2 /\ Abs(c - pos[j]) <= 2

unmask(matrix, size, mask, v) ==
    Array([k \in 1..(size * size) |->
        IF ~isFunc(RowOf(size, k), ColOf(size, k), size, v)
           /\ maskFunction(mask, RowOf(size, k), ColOf(size, k))
        THEN 1 - matrix[k] ELSE matrix[k]])

\* the walk of extractBits is the walk of placeData: pair j, step o
extractBits(matrix, size, v) ==
    LET steps == [p \in 1..(pairCount(size) * 2 * size) |->
                     walkAt(size, ((p - 1) \div (2 * size)) + 1, (p - 1) % (2 * size))]
        kept == SelectSeq(steps, LAMBDA k : ~isFunc(RowOf(size, k), ColOf(size, k), size, v))
    IN  Array([n \in 1..Len(kept) |-> matrix[kept[n]]])

\* read(n) with the cursor at i: the value of the bits read, n of them or those left
readBits(bits, i, n) ==
    LET got == Max(0, Min(n, Len(bits) - i))
    IN  [val |-> SumFirst([j \in 1..got |-> bits[i + j] * Pow2(got - j)], got), i |-> i + got]

RECURSIVE Flatten(_, _, _)
\* parts[a] .. parts[b] one after the other (by halves)
Flatten(parts, a, b) ==
    IF a > b THEN << >>
    ELSE IF a = b THEN parts[a]
    ELSE LET mid == (a + b) \div 2
         IN  Flatten(parts, a, mid) \o Flatten(parts, mid + 1, b)

ALPHANUMERIC == <<48, 49, 50, 51, 52, 53, 54, 55, 56, 57, 65, 66, 67, 68, 69, 70, 71, 72, 73, 74, 75, 76, 77, 78, 79, 80, 81, 82, 83, 84, 85, 86, 87, 88, 89, 90, 32, 36, 37, 42, 43, 45, 46, 47, 58>>
UNDEFINED_TEXT == <<117, 110, 100, 101, 102, 105, 110, 101, 100>>       \* "undefined"

\* chars[index] as it is appended to a string
charsAt(index) == IF index < Len(ALPHANUMERIC) THEN << ALPHANUMERIC[index + 1] >> ELSE UNDEFINED_TEXT

\* text.padStart(width, '0')
padStart(text, width) == [k \in 1..(Max(0, width - Len(text))) |-> Digit0] \o text

\* the n reads of width bits each that a loop makes from cursor i on
readsOf(bits, i, n, width) == [j \in 1..n |-> readBits(bits, Min(Len(bits), i + width * (j - 1)), width).val]

\* mode 4: count, then count reads of 8 bits; if (b) result += String.fromCharCode(b)
byteSegment(bits, i, v) ==
    LET count == readBits(bits, i, IF v < 10 THEN 8 ELSE 16)
        bytes == readsOf(bits, count.i, count.val, 8)
    IN  [text |-> SelectSeq(bytes, LAMBDA b : b # 0), i |-> Min(Len(bits), count.i + 8 * count.val)]

\* mode 2
alphanumericSegment(bits, i, v) ==
    LET count == readBits(bits, i, IF v < 10 THEN 9 ELSE IF v < 27 THEN 11 ELSE 13)
        pairs == readsOf(bits, count.i, count.val \div 2, 11)
        afterPairs == Min(Len(bits), count.i + 11 * (count.val \div 2))
        last == readBits(bits, afterPairs, 6)
        text == Flatten([j \in 1..Len(pairs) |-> charsAt(pairs[j] \div 45) \o charsAt(pairs[j] % 45)],
                        1, Len(pairs))
    IN  IF count.val % 2 = 1
        THEN [text |-> text \o charsAt(last.val), i |-> last.i]
        ELSE [text |-> text, i |-> afterPairs]

\* mode 1
numericSegment(bits, i, v) ==
    LET count == readBits(bits, i, IF v < 10 THEN 10 ELSE IF v < 27 THEN 12 ELSE 14)
        triples == readsOf(bits, count.i, count.val \div 3, 10)
        afterTriples == Min(Len(bits), count.i + 10 * (count.val \div 3))
        text == Flatten([j \in 1..Len(triples) |-> padStart(NumberToString(triples[j]), 3)],
                        1, Len(triples))
        two == readBits(bits, afterTriples, 7)
        one == readBits(bits, afterTriples, 4)
    IN  IF count.val % 3 = 2 THEN [text |-> text \o padStart(NumberToString(two.val), 2), i |-> two.i]
        ELSE IF count.val % 3 = 1 THEN [text |-> text \o NumberToString(one.val), i |-> one.i]
        ELSE [text |-> text, i |-> afterTriples]

RECURSIVE decodeBitsFrom(_, _, _, _)
\* the while loop of decodeBits with the cursor at i
decodeBitsFrom(bits, v, i, result) ==
    IF Len(result) >= 0 /\ i < Len(bits) - 4
    THEN LET mode == readBits(bits, i, 4)
             segment == CASE mode.val = 4 -> byteSegment(bits, mode.i, v)
                          [] mode.val = 2 -> alphanumericSegment(bits, mode.i, v)
                          [] mode.val = 1 -> numericSegment(bits, mode.i, v)
                          [] OTHER -> [text |-> << >>, i |-> mode.i]
         IN  IF mode.val \in {4, 2, 1}
             THEN decodeBitsFrom(bits, v, segment.i, result \o segment.text)
             ELSE result
    ELSE result

decodeBits(bits, v) == decodeBitsFrom(bits, v, 0, << >>)

\* what decode does with a module matrix of the given version: format read,
\* unmask, bit extraction, payload decoding, and null for the empty string
readMatrix(matrix, size, version) ==
    LET format == readFormat(matrix, size)
        unmasked == unmask(matrix, size, format.mask, version)
        bits == extractBits(unmasked, size, version)
        text == decodeBits(bits, version)
    IN  IF Len(text) = 0 THEN noPacket ELSE [text |-> text]       \* decodeBits(...) || null

(***************************************************************************)
(* Version selection over payload lengths and EC levels.                   *)
(***************************************************************************)
MaxVersionLen == 2960      \* payload lengths tried: past the largest capacity (2953 at L)

\* a payload of len bytes
payloadOfLength(len) == [i \in 1..len |-> 255]

InitVersion ==
    /\ input \in [ length : 0..MaxVersionLen, ecLevel : ECLevels ]
    /\ output = << >>
    /\ sender = noSender
    /\ Idle

\* the first two lines of generate's work: the version, and the size of the matrix made for it
GetVersion ==
    /\ Len(output) = 0 /\ "length" \in DOMAIN input
    /\ LET version == getVersion(payloadOfLength(input.length), input.ecLevel)
       IN  output' = << IF "threw" \in DOMAIN version THEN version
                        ELSE [version |-> version.version, size |-> matrixSize(version.version)] >>
    /\ UNCHANGED <<input, sender, rxVars, txVars>>

NextVersion == GetVersion

SpecVersion == InitVersion /\ [][NextVersion]_vars

\* the capacity test as C19 words it
countBitsOf(v) == IF v \in 1..9 THEN 8 ELSE 16
admits(v, len, ecLevel) == 8 * getDataCapacity(v, ecLevel) >= 4 + countBitsOf(v) + 8 * len + 4

\* C19 (version selection): when some version admits the payload length at
\* the EC level, the version used is the smallest v in 1..40 whose data capacity
\* in bits is at least 4 + count_bits(v) + 8 * len + 4, and the size is
\* 4 * v + 17; 11 bytes at M give version 1 and size 21, 100 bytes at L
\* give version 5.
C19_VersionSelection ==
    (Len(output) >= 1 /\ "length" \in DOMAIN input) =>
        LET len == input.length
            ec == input.ecLevel
            got == output[1]
        IN  /\ (\E v \in 1..40 : admits(v, len, ec)) =>
                  /\ "version" \in DOMAIN got
                  /\ got.version \in 1..40
                  /\ admits(got.version, len, ec)
                  /\ \A u \in 1..(got.version - 1) : ~admits(u, len, ec)
                  /\ got.size = 4 * got.version + 17
            /\ (len = 11 /\ ec = "M") => (got.version = 1 /\ got.size = 21)
            /\ (len = 100 /\ ec = "L") => got.version = 5

\* a payload that needs the 16-bit character count gets its version
C19_Witness ==
    /\ Len(output) >= 1 /\ "length" \in DOMAIN input
    /\ "version" \in DOMAIN output[1] /\ output[1].version = 10
    /\ input.ecLevel = "Q"

(***************************************************************************)
(* Generated codes and their reading.  The payloads are all short byte     *)
(* strings over QRBytes and a string of each length in QRLengths; a        *)
(* payload is generated when no version admits it or when its version is   *)
(* at most MaxQRVersion.                                                   *)
(***************************************************************************)
MaxQRLen == 2
MaxQRVersion == 3
QRBytes == {0, 65, 255}
QRLengths == {17, 30, 1274, 1664, 2332, 2954}

QRPayloads == SeqsUpTo(QRBytes, MaxQRLen) \cup { payloadOfLength(n) : n \in QRLengths }

InitQR ==
    /\ input \in { i \in [ text : QRPayloads, ecLevel : ECLevels ] :
                     LET version == getVersion(i.text, i.ecLevel)
                     IN  "threw" \in DOMAIN version \/ version.version <= MaxQRVersion }
    /\ output = << >>
    /\ sender = noSender
    /\ Idle

\* QREncoder.generate(text, ecLevel)
Generate ==
    /\ Len(output) = 0 /\ "text" \in DOMAIN input
    /\ output' = << generate(input.text, input.ecLevel) >>
    /\ UNCHANGED <<input, sender, rxVars, txVars>>

\* the module matrix generate returned is read as decode reads a matrix:
\* readFormat, unmask, extractBits, decodeBits(...) || null, with the
\* version generate chose.  (This is not QRDecoder.decode on a rendering:
\* decode finds the finder patterns and samples the matrix from pixels in
\* floating point first, which is not part of this model.)
ReadMatrix ==
    /\ Len(output) = 1 /\ "text" \in DOMAIN input /\ "matrix" \in DOMAIN output[1]
    /\ output' = Append(output,
           readMatrix(output[1].matrix, output[1].size,
                      getVersion(input.text, input.ecLevel).version))
    /\ UNCHANGED <<input, sender, rxVars, txVars>>

NextQR == Generate \/ ReadMatrix

SpecQR == InitQR /\ [][NextQR]_vars

\* C18 (round trip at the module-matrix level): for every payload of 1 or
\* more bytes, 0x00 included, and every EC level, decoding the matrix made by
\* generate gives back exactly the payload, also when the data is split into
\* more than one block.
C18_MatrixRoundTrip ==
    (Len(output) = 2 /\ "text" \in DOMAIN input /\ Len(input.text) >= 1) =>
        output[2] = [text |-> input.text]

\* C20 (payload too large): generate fails with the too-long error exactly
\* when no version 1..40 admits the payload at the EC level, and then no
\* matrix is made; otherwise it returns a matrix of size * size modules.
C20_TooLargeIffNoVersion ==
    (Len(output) >= 1 /\ "text" \in DOMAIN input) =>
        LET none == \A v \in 1..40 : ~admits(v, Len(input.text), input.ecLevel)
            got == output[1]
        IN  /\ none <=> "threw" \in DOMAIN got
            /\ none => got = [threw |-> TOO_LONG]
            /\ ~none =>
                  /\ "matrix" \in DOMAIN got
                  /\ got.size >= 21
                  /\ Len(got.matrix) = got.size * got.size
                  /\ \A k \in 1..Len(got.matrix) : got.matrix[k] \in {0, 1}

\* generate has failed on a payload one byte past the capacity of level H
C20_Witness ==
    /\ Len(output) = 1 /\ "text" \in DOMAIN input
    /\ Len(input.text) = 1274 /\ input.ecLevel = "H"
    /\ "threw" \in DOMAIN output[1]

(***************************************************************************)
(* Further properties of the Receiver, over Spec.                          *)
(***************************************************************************)
\* C26 (total is set once): the Receiver's total is null until a CRC-valid
\* packet is accepted, is then that packet's total field, and stays as it is
\* through every later receive() call; reset() sets it back to null.
C26_TotalSetOnce ==
    /\ (Pristine(receiver) /\ rxResult = noResult) => receiver.totalPackets = null
    /\ [][ IF Returned
           THEN IF receiver.totalPackets = null
                THEN receiver'.totalPackets =
                        IF WellFramed(rxFrame') /\ CrcMatches(rxFrame')
                        THEN HeaderTotal(rxFrame') ELSE null
                ELSE receiver'.totalPackets = receiver.totalPackets
           ELSE receiver'.totalPackets = null ]_vars

\* a CRC-valid frame with another total than the established one was just
\* received, and the total is still the established one
C26_Witness ==
    /\ rxResult # noResult
    /\ WellFramed(rxFrame) /\ CrcMatches(rxFrame)
    /\ receiver.totalPackets = Len(sender.packets)
    /\ HeaderTotal(rxFrame) = Len(sender.packets) + 1

\* C27 (complete means nothing is missing): whenever isComplete() is true,
\* every seq in [0, total) is in the packet map, that is getMissingSequences()
\* is empty and reassemble() reads no missing entry.
C27_CompleteHasAll ==
    isComplete(receiver) =>
        /\ getMissingSequences(receiver) = << >>
        /\ "threw" \notin DOMAIN reassemble(receiver)

\* C28 (checksum errors and stored seqs are disjoint): no seq whose packet is
\* stored is listed in checksumErrors.
C28_ErrorsDisjointFromStored ==
    receiver.checksumErrors \cap DOMAIN receiver.packets = {}

(***************************************************************************)
(* Further properties of the Sender.                                       *)
(***************************************************************************)
\* C29 (one pending tick): for any interleaving of start(), stop() and timer
\* firings a Sender has at most one scheduled tick pending.
C29_AtMostOnePendingTick == timers <= 1

(***************************************************************************)
(* A Sender that is started once, never stopped, and asked for             *)
(* retransmissions of packets of its stream while it runs and after it has *)
(* run out; output lists the seqs asked for, its timers eventually fire.   *)
(***************************************************************************)
MaxRequested == 2
MaxRetransmitLen == 2

InitRetransmit == \E len \in 1..MaxRetransmitLen, c \in 1..MaxChunk : Constructed(StreamPayload(len), c)

\* sender.requestRetransmit([seq]) on the started Sender, seq in [0, packets.length)
RequestInRange ==
    /\ sender.isPlaying /\ Len(output) < MaxRequested
    /\ \E seq \in 0..(Len(sender.packets) - 1) :
          /\ sender' = requestRetransmit(sender, <<seq>>)
          /\ output' = Append(output, seq)
    /\ UNCHANGED <<input, rxVars, txVars>>

NextRetransmit ==
    \/ SetSenderHandlers
    \/ StartOnce
    \/ TimerFires
    \/ RequestInRange

SpecRetransmit == InitRetransmit /\ [][NextRetransmit]_vars /\ WF_vars(TimerFires)

\* the k-th seq asked for has left the queue in a tick that handed it to onPacket
Retransmitted(k) ==
    /\ Len(output) - Len(sender.retransmitQueue) >= k
    /\ \E i \in 1..Len(txCalls) : txCalls[i].cb = "onPacket" /\ txCalls[i].seq = output[k]

\* C30 (retransmissions are delivered): on a Sender with a sink that was
\* started and is never stopped, every in-range seq passed to
\* requestRetransmit is eventually handed to the sink, also when it is asked
\* for after the completion notification.
C30_RetransmitDelivered ==
    \A k \in 1..MaxRequested :
        (sender.onPacket /\ Len(output) >= k) ~> Retransmitted(k)

(***************************************************************************)
(* Reed-Solomon encoding of data blocks.                                   *)
(***************************************************************************)
MaxRsLen == 2
RsBytes == {0, 1, 255}
RsSymbols == {7, 10, 13, 17, 20, 24, 28, 30}     \* numbers of EC codewords per block
\* the data codewords of 'HELLO WORLD' at M, version 1
RsSampleBlock == <<64, 180, 132, 84, 196, 196, 242, 5, 116, 245, 36, 196, 64, 236, 17, 236>>

InitRs ==
    /\ input \in [ block : (SeqsUpTo(RsBytes, MaxRsLen) \ { << >> }) \cup { RsSampleBlock },
                   nsym : RsSymbols ]
    /\ output = << >>
    /\ sender = noSender
    /\ Idle

\* rsEncode(block, nsym)
RsEncode ==
    /\ Len(output) = 0 /\ "block" \in DOMAIN input
    /\ output' = << rsEncode(input.block, input.nsym) >>
    /\ UNCHANGED <<input, sender, rxVars, txVars>>

NextRs == RsEncode

SpecRs == InitRs /\ [][NextRs]_vars

RECURSIVE fieldProduct(_, _, _)
\* a * b in GF(256) modulo x^8 + x^4 + x^3 + x^2 + 1 (0x11D), by shift and add
fieldProduct(a, b, sum) ==
    IF sum < 0 \/ b = 0 THEN sum
    ELSE fieldProduct(IF 2 * a >= 256 THEN BitXor(2 * a, 285) ELSE 2 * a, b \div 2,
                      IF b % 2 = 1 THEN BitXor(sum, a) ELSE sum)

RECURSIVE fieldPower(_, _)
\* base^n in that field
fieldPower(base, n) == IF n = 0 THEN 1 ELSE fieldProduct(base, fieldPower(base, n - 1), 0)

RECURSIVE evalFrom(_, _, _, _)
\* the value at x of the polynomial with coefficients poly, high order first
evalFrom(poly, x, i, value) ==
    IF value < 0 \/ i > Len(poly) THEN value
    ELSE evalFrom(poly, x, i + 1, BitXor(fieldProduct(value, x, 0), poly[i]))

\* C23 (Reed-Solomon): rsEncode(data, n) returns exactly n codewords, and the
\* polynomial data || rsEncode(data, n), high order first, is zero at 2^i in
\* GF(256) with primitive polynomial 0x11D for every i in [0, n).
C23_SyndromesZero ==
    (Len(output) = 1 /\ "block" \in DOMAIN input) =>
        /\ Len(output[1]) = input.nsym
        /\ \A k \in 1..Len(output[1]) : output[1][k] \in 0..255
        /\ \A i \in 0..(input.nsym - 1) :
              evalFrom(input.block \o output[1], fieldPower(2, i), 1, 0) = 0

\* the 16 data codewords of 'HELLO WORLD' have got their 10 EC codewords, not all zero
C23_Witness ==
    /\ Len(output) = 1 /\ "block" \in DOMAIN input
    /\ input.block = RsSampleBlock /\ input.nsym = 10
    /\ \E k \in 1..Len(output[1]) : output[1][k] # 0

(***************************************************************************)
(* The penalty C22 names: P1 + P2 as scorePenalty computes them, plus       *)
(* P3 (40 for every 1:1:3:1:1 pattern in a row or column that has four      *)
(* light modules before or after it) and P4 (10 for every full 5 percent    *)
(* the share of dark modules is away from 50 percent).                     *)
(***************************************************************************)
FinderLike == <<1, 0, 1, 1, 1, 0, 1>>

\* the modules of a row (line < size) or of a column (line >= size), in order
lineOf(matrix, size, line) ==
    IF line < size THEN [c \in 1..size |-> matrix[At(size, line, c - 1)]]
    ELSE [r \in 1..size |-> matrix[At(size, r - 1, line - size)]]

patternPenalty(matrix, size) ==
    LET lines == [l \in 1..(2 * size) |-> Array(lineOf(matrix, size, l - 1))]
        light(l, a, b) == a >= 1 /\ b <= size /\ \A j \in a..b : lines[l][j] = 0
        hits == { <<l, i>> \in (1..(2 * size)) \X (1..(size - 6)) :
                    /\ \A j \in 1..7 : lines[l][i + j - 1] = FinderLike[j]
                    /\ light(l, i - 4, i - 1) \/ light(l, i + 7, i + 10) }
    IN  40 * Cardinality(hits)

ratioPenalty(matrix, size) ==
    LET dark == Cardinality({ k \in 1..(size * size) : matrix[k] = 1 })
        total == size * size
    IN  10 * (Abs(100 * dark - 50 * total) \div (5 * total))

totalPenalty(matrix, size) ==
    scorePenalty(matrix, size) + patternPenalty(matrix, size) + ratioPenalty(matrix, size)

RECURSIVE lowestTotalFrom(_, _, _)
\* the candidate of lowest total penalty among those of mask, mask + 1, ..., 7
\* and best, the earlier one when two share a total
lowestTotalFrom(candidates, mask, best) ==
    IF mask >= 8 THEN best
    ELSE LET matrix == candidates[mask + 1].matrix
             total == totalPenalty(matrix, candidates[mask + 1].size)
         IN  IF "null" \in DOMAIN best \/ total < best.total
             THEN lowestTotalFrom(candidates, mask + 1, [matrix |-> matrix, total |-> total, mask |-> mask])
             ELSE lowestTotalFrom(candidates, mask + 1, best)

\* C22 (mask optimality): the matrix generate returns is the one built with
\* the mask in 0..7 whose total penalty P1 + P2 + P3 + P4 is lowest, the
\* lowest such mask when several share the lowest penalty.
C22_MaskMinimizesPenalty ==
    (Len(output) >= 1 /\ "text" \in DOMAIN input /\ "matrix" \in DOMAIN output[1]) =>
        LET version == getVersion(input.text, input.ecLevel).version
            finalData == addErrorCorrection(encodeData(input.text, version, input.ecLevel),
                                            version, input.ecLevel)
            candidates == [mask \in 1..8 |-> maskedMatrix(finalData, version, input.ecLevel, mask - 1)]
        IN  output[1].matrix = lowestTotalFrom(candidates, 0, noPacket).matrix
(***************************************************************************)
(* One round of the loop of generate, step by step: the function patterns  *)
(* of a mask, then placeData, then applyMask.  The payloads are one of     *)
(* each length in MaskLengths, kept when their version is at most          *)
(* MaxMaskVersion (version 1 has no alignment pattern, versions from 2 on  *)
(* have some, versions from 7 on carry version information).               *)
(***************************************************************************)
MaxMaskVersion == 7
MaskLengths == {1, 30, 60, 150}

InitMask ==
    /\ input \in { i \in [ text : { payloadOfLength(n) : n \in MaskLengths },
                           ecLevel : ECLevels, mask : 0..7 ] :
                     LET version == getVersion(i.text, i.ecLevel)
                     IN  "version" \in DOMAIN version /\ version.version <= MaxMaskVersion }
    /\ output = << >>
    /\ sender = noSender
    /\ Idle

\* createMatrix ... addFormatInfo(ecLevel, mask)
FunctionPatterns ==
    /\ Len(output) = 0 /\ "mask" \in DOMAIN input
    /\ output' = << functionPatterns(getVersion(input.text, input.ecLevel).version,
                                     input.ecLevel, input.mask) >>
    /\ UNCHANGED <<input, sender, rxVars, txVars>>

\* placeData(finalData)
PlaceData ==
    /\ Len(output) = 1 /\ "mask" \in DOMAIN input
    /\ LET version == getVersion(input.text, input.ecLevel).version
       IN  output' = Append(output,
               placeData(output[1],
                         addErrorCorrection(encodeData(input.text, version, input.ecLevel),
                                            version, input.ecLevel)))
    /\ UNCHANGED <<input, sender, rxVars, txVars>>

\* applyMask(mask)
ApplyMask ==
    /\ Len(output) = 2 /\ "mask" \in DOMAIN input
    /\ output' = Append(output, applyMask(output[2], input.mask))
    /\ UNCHANGED <<input, sender, rxVars, txVars>>

NextMask == FunctionPatterns \/ PlaceData \/ ApplyMask

SpecMask == InitMask /\ [][NextMask]_vars

\* C21 (function-pattern invariance): every module marked reserved has,
\* after placeData and after applyMask, the value it had right after the
\* function patterns were placed, and the set of reserved modules is the
\* same: the two steps change only modules that are not reserved.
C21_ReservedUnchanged ==
    ("mask" \in DOMAIN input /\ Len(output) >= 2) =>
        \A n \in 2..Len(output) :
            /\ output[n].reserved = output[1].reserved
            /\ \A k \in 1..(output[1].size * output[1].size) :
                  output[1].reserved[k] => output[n].matrix[k] = output[1].matrix[k]

\* a version with alignment patterns and version information has been
\* masked, and the mask function is true on one of its reserved modules
C21_Witness ==
    /\ "mask" \in DOMAIN input /\ Len(output) = 3
    /\ output[1].size >= matrixSize(7)
    /\ \E k \in 1..(output[1].size * output[1].size) :
          /\ output[1].reserved[k]
          /\ maskFunction(input.mask, RowOf(output[1].size, k), ColOf(output[1].size, k))
    /\ output[3].matrix # output[2].matrix
    /\ output[2].matrix # output[1].matrix
(***************************************************************************)
(* The reservation of the encoder next to that of the decoder, for every   *)
(* version: the reserved array once the function patterns are placed (it   *)
(* does not depend on the EC level or the mask; those of the first round   *)
(* of a default generate are used), then isFunc on every module and        *)
(* getAlignPos.                                                            *)
(***************************************************************************)
InitReserve ==
    /\ input \in [ version : 1..MAX_VERSION ]
    /\ output = << >>
    /\ sender = noSender
    /\ Idle

\* encoder: reserved after addFormatInfo
EncoderReserved ==
    /\ Len(output) = 0 /\ DOMAIN input = {"version"}
    /\ output' = << functionPatterns(input.version, "M", 0).reserved >>
    /\ UNCHANGED <<input, sender, rxVars, txVars>>

\* decoder: isFunc(r, c, size, v) on every module, and getAlignPos(v, size)
DecoderIsFunc ==
    /\ Len(output) = 1 /\ DOMAIN input = {"version"}
    /\ LET size == matrixSize(input.version)
       IN  output' = Append(output,
               [isFunc |-> Array([k \in 1..(size * size) |->
                               isFunc(RowOf(size, k), ColOf(size, k), size, input.version)]),
                alignPos |-> getAlignPos(input.version, size)])
    /\ UNCHANGED <<input, sender, rxVars, txVars>>

NextReserve == EncoderReserved \/ DecoderIsFunc

SpecReserve == InitReserve /\ [][NextReserve]_vars

\* C24 (reservation mirror): for every version 1..40 the decoder's
\* isFunc(r, c, size, v) is true on exactly the modules the encoder marked
\* reserved, and getAlignPos(v, size) is the encoder's ALIGNMENT_POSITIONS
\* entry of the version.
C24_ReservationMirror ==
    (DOMAIN input = {"version"} /\ Len(output) = 2) =>
        /\ output[2].isFunc = output[1]
        /\ output[2].alignPos = ALIGNMENT_POSITIONS[input.version]
(***************************************************************************)
(* decodeBits on bit streams made of segments the decoder supports (none,  *)
(* or one of each mode holding one character), then a 4-bit mode header of *)
(* any value, then up to MaxTailLen further bits, read as a symbol of one  *)
(* of BitsVersions (one version for each width of the count fields).       *)
(***************************************************************************)
MaxTailLen == 2
BitsVersions == {1, 10, 27}
SegmentKinds == {"byte", "alphanumeric", "numeric"}

\* the width low bits of n, most significant first
bitsOf(n, width) == [j \in 1..width |-> BitAt(n, width - j)]

\* a segment of one character as the decoder reads it at version v:
\* the byte 'A', the alphanumeric 'A' (index 10), the digit 7
segmentBits(kind, v) ==
    CASE kind = "byte" ->
             bitsOf(4, 4) \o bitsOf(1, IF v < 10 THEN 8 ELSE 16) \o bitsOf(65, 8)
      [] kind = "alphanumeric" ->
             bitsOf(2, 4) \o bitsOf(1, IF v < 10 THEN 9 ELSE IF v < 27 THEN 11 ELSE 13) \o bitsOf(10, 6)
      [] kind = "numeric" ->
             bitsOf(1, 4) \o bitsOf(1, IF v < 10 THEN 10 ELSE IF v < 27 THEN 12 ELSE 14) \o bitsOf(7, 4)
      [] OTHER -> << >>

\* the bit stream of an input: the segments, the header, the tail
streamBits(i) ==
    Flatten([n \in 1..Len(i.segments) |-> segmentBits(i.segments[n], i.version)], 1, Len(i.segments))
    \o bitsOf(i.header, 4) \o i.tail

InitBits ==
    /\ input \in [ segments : SeqsUpTo(SegmentKinds, 1) \cup {<<"byte", "numeric">>},
                   header : 0..15,
                   tail : SeqsUpTo({0, 1}, MaxTailLen),
                   version : BitsVersions ]
    /\ output = << >>
    /\ sender = noSender
    /\ Idle

\* decodeBits(bits, version) || null
DecodeBits ==
    /\ Len(output) = 0 /\ "header" \in DOMAIN input
    /\ LET text == decodeBits(streamBits(input), input.version)
       IN  output' = << IF Len(text) = 0 THEN noPacket ELSE [text |-> text] >>
    /\ UNCHANGED <<input, sender, rxVars, txVars>>

NextBits == DecodeBits

SpecBits == InitBits /\ [][NextBits]_vars

\* C25 (unsupported modes are rejected): when the decoder reads a mode
\* header that is none of 0001, 0010, 0100 and 0000, its result is null,
\* also when segments were decoded before that header.  (The header is read
\* when at least one bit follows it.)
C25_UnsupportedModeRejected ==
    ("header" \in DOMAIN input /\ Len(output) = 1
       /\ Len(input.tail) >= 1 /\ input.header \notin {0, 1, 2, 4}) =>
        output[1] = noPacket
====
